---- MODULE Spec2Model ----
(***************************************************************************)
(* quakepro: the catalog-driven batch acquisition pipeline                 *)
(* (scripts/fetcher_int.py, scripts/fetcher_csv.py, scripts/_utils) and    *)
(* the Waveform / WaveformDataset entity layer (quakepro/components).      *)
(*                                                                         *)
(* Times are integers in one fixed unit.  The remote service, the          *)
(* travel-time model and the file system are the environment: their        *)
(* answers are drawn with \E from small sets.                              *)
(***************************************************************************)
EXTENDS Integers, Sequences, FiniteSets, TLC

(* ------------------------------------------------------------------ *)
(* Bounds of the model                                                *)
(* ------------------------------------------------------------------ *)
MaxEnd == 2          \* synthetic mode: end_date ranges over 0..MaxEnd
MaxEvents == 2       \* explicit mode: catalog files hold at most MaxEvents rows
MaxGridEnd == 10     \* SpecCatalog: end_date ranges over start_date..MaxGridEnd
MaxGridStep == 5     \* SpecCatalog: interval ranges over 1..MaxGridStep

(* ------------------------------------------------------------------ *)
(* Program constants                                                  *)
(* ------------------------------------------------------------------ *)
FirstId == 100000000 \* fetcher_int.py:95, first id of the synthetic catalog

StationName == "MMO1"
Network == "IV"

(* ------------------------------------------------------------------ *)
(* Floats that may be NaN                                              *)
(* ------------------------------------------------------------------ *)
Num(v) == [nan |-> FALSE, v |-> v]
NaN == [nan |-> TRUE, v |-> 0]

VARIABLES
  mode,          \* "int" (INTFetcher) or "csv" (WaveformFetcher)
  conf,          \* the constructor's arguments
  pc,            \* position of the run
  station,       \* the _Station object, with its lazily set sampling_rate
  catalog,       \* self.catalog, a sequence of rows
  i,             \* index of the next catalog row of the batch loop
  dir,           \* the station-named directory exists
  h5,            \* the <station>_waveforms.hdf5 file: [exists, open, data]
  csv,           \* the <station>_attributes.csv file: [exists, rows]
  attr_list,     \* self._attr_list
  log,           \* ids named by the skip messages written so far
  reqs,          \* get_waveforms requests issued so far
  flushes,       \* number of _save_attributes calls of this run
  outcomes,      \* how each iteration of the batch loop ended, in order
  tt_answers,    \* the travel-time model's answers, one per catalog row
  envFaults,     \* catalog indices at which the environment failed
  prior,         \* the runs made before in this directory, and what the
                 \* latest of them found there when it started
  gen,           \* SpecCatalog: the arguments and the result of _generate_catalog
  arrays,        \* the numpy arrays, by identity
  series,        \* the attribute rows (pd.Series objects), by identity
  wfs,           \* the Waveform objects, by identity: their instance attributes
  ds,            \* WaveformDataset.waveforms: a sequence of Waveform identities
  ret,           \* the latest call of the entity layer and how it ended
  calls,         \* the waveforms on which the latest apply invoked the method
  nops,          \* number of calls made to the entity layer
  folder,        \* the directory given to Processor: its stores and its table
  procs          \* the Processor objects, by identity

batchVars == <<mode, conf, pc, station, catalog, i, dir, h5, csv, attr_list, log,
               reqs, flushes, outcomes, tt_answers, envFaults>>
entityVars == <<arrays, series, wfs, ds, ret, calls, nops>>
bulkVars == <<folder, procs>>
vars == <<batchVars, prior, gen, entityVars, bulkVars>>

(* ------------------------------------------------------------------ *)
(* Inputs                                                             *)
(* ------------------------------------------------------------------ *)
\* (detrend, remove_response, resample) combinations; resample 0 is None
Conditionings ==
  { [detrend |-> TRUE,  remove_response |-> FALSE, resample |-> 0],
    [detrend |-> FALSE, remove_response |-> TRUE,  resample |-> 0],
    [detrend |-> FALSE, remove_response |-> FALSE, resample |-> 2],
    [detrend |-> FALSE, remove_response |-> FALSE, resample |-> 0] }

\* rows of a catalog file of explicit mode: id, time, lat, lon, depth, magnitude
EventRows ==
  { [id |-> 7, time |-> 1000, lat |-> 42, lon |-> 13, depth |-> 9,  magnitude |-> 3],
    [id |-> 8, time |-> 2000, lat |-> 43, lon |-> 12, depth |-> 10, magnitude |-> 4] }

RECURSIVE SeqsUpTo(_, _)
SeqsUpTo(S, n) ==
  IF n = 0 THEN { <<>> }
  ELSE LET shorter == SeqsUpTo(S, n - 1)
       IN  shorter \cup { Append(q, x) : q \in { r \in shorter : Len(r) = n - 1 }, x \in S }

CatalogFiles == SeqsUpTo(EventRows, MaxEvents)

\* answers of the travel-time model: the arrivals, ordered by time
ArrivalLists == { <<>>, <<1234>>, <<1236, 2000>> }

\* answers of get_waveforms: it raises, or returns a stream of two channels
Rates == {1, 2}
Responses ==
  [kind : {"error"}, gaps : {FALSE}, cond_ok : {TRUE}, rate : {1}, npts : { <<>> }]
  \cup [kind : {"stream"}, gaps : BOOLEAN, cond_ok : BOOLEAN, rate : Rates,
        npts : { <<4, 4>>, <<1, 4>>, <<1, 1>> }]

\* answers of get_stations
MetadataAnswers == {"ok", "raise", "empty"}

NoFile == [exists |-> FALSE, open |-> FALSE, data |-> <<>>]
NoTable == [exists |-> FALSE, rows |-> <<>>]

\* a directory without stores and without a table
NoFolder == [stores |-> <<>>, table |-> [exists |-> FALSE, rows |-> <<>>]]

\* no run was made before in the working directory
NoPrior == [runs |-> 0, h5 |-> NoFile, csv |-> NoTable]

(* ------------------------------------------------------------------ *)
(* INTFetcher._generate_catalog                                       *)
(* ------------------------------------------------------------------ *)
\* mutant: a range that leaves its end point out
RECURSIVE date_range_open(_, _, _)
date_range_open(start, end, freq) ==
  IF start >= end THEN <<>>
  ELSE <<start>> \o date_range_open(start + freq, end, freq)

\* pd.date_range(start, end, freq): start, start+freq, ... while <= end
RECURSIVE date_range(_, _, _)
date_range(start, end, freq) ==
  IF start > end THEN <<>>
  ELSE <<start>> \o date_range(start + freq, end, freq)

_generate_catalog(start_date, end_date, interval, trace_len) ==
  LET dr == date_range(start_date, end_date, interval)
      ids == [k \in 1..Len(dr) |-> FirstId + (k - 1)]
  IN  [k \in 1..Len(dr) |->
         [id |-> ids[k],
          trace_start_time |-> Num(dr[k]),
          trace_end_time |-> Num(dr[k] + trace_len)]]

(* ------------------------------------------------------------------ *)
(* WaveformFetcher: travel times and trace windows                    *)
(* ------------------------------------------------------------------ *)
\* round(x, 5) with x in units of 1e-6: to the nearest ten, halves to even
Round5(x) ==
  LET q == x \div 10
      r == x % 10
  IN  IF r < 5 THEN 10 * q
      ELSE IF r > 5 THEN 10 * (q + 1)
      ELSE IF q % 2 = 0 THEN 10 * q ELSE 10 * (q + 1)

\* one row of _calculate_p_travel_times: travel_times is the model's answer
p_travel_time(travel_times) ==
  IF travel_times # <<>> THEN Num(Round5(travel_times[1])) ELSE NaN

_calculate_p_travel_times(cat, answers) ==
  [k \in 1..Len(cat) |->
     [id |-> cat[k].id, time |-> cat[k].time, lat |-> cat[k].lat,
      lon |-> cat[k].lon, depth |-> cat[k].depth,
      magnitude |-> cat[k].magnitude,
      p_travel_time_s |-> p_travel_time(answers[k])]]

\* UTCDateTime + float and UTCDateTime - float
AddT(t, x) == IF t.nan \/ x.nan THEN NaN ELSE Num(t.v + x.v)
SubT(t, x) == IF t.nan \/ x.nan THEN NaN ELSE Num(t.v - x.v)

\* mutant: the end of the window is taken time_before_p after the arrival
trace_times_same_margin(row, time_before_p, time_after_p) ==
  LET origin_time == Num(row.time)
      arrival_time == AddT(origin_time, row.p_travel_time_s)
  IN  [trace_start_time |-> SubT(arrival_time, Num(time_before_p)),
       trace_end_time |-> AddT(arrival_time, Num(time_before_p))]

trace_times(row, time_before_p, time_after_p) ==
  LET origin_time == Num(row.time)
      arrival_time == AddT(origin_time, row.p_travel_time_s)
  IN  [trace_start_time |-> SubT(arrival_time, Num(time_before_p)),
       trace_end_time |-> AddT(arrival_time, Num(time_after_p))]

_calculate_trace_times(cat, time_before_p, time_after_p) ==
  [k \in 1..Len(cat) |->
     LET w == trace_times(cat[k], time_before_p, time_after_p)
     IN  [id |-> cat[k].id, time |-> cat[k].time, lat |-> cat[k].lat,
          lon |-> cat[k].lon, depth |-> cat[k].depth,
          magnitude |-> cat[k].magnitude,
          p_travel_time_s |-> cat[k].p_travel_time_s,
          trace_start_time |-> w.trace_start_time,
          trace_end_time |-> w.trace_end_time]]

(* ------------------------------------------------------------------ *)
(* Acquisition of one event: _download_waveforms                      *)
(* ------------------------------------------------------------------ *)
\* the attributes __init__ assigns to the fetcher object
FetcherAttrs(m) ==
  IF m = "int"
  THEN {"client", "network", "station", "location", "channel", "start_date",
        "end_date", "trace_len", "interval", "catalog", "detrend", "resample",
        "remove_response", "_dir_path", "_attr_list"}
  ELSE {"client", "network", "station", "location", "channel", "time_before_p",
        "time_after_p", "catalog", "__dir_path", "model", "detrend", "resample",
        "remove_response", "__attr_list"}

\* the keyword argument attach_response of get_waveforms: <<>> when evaluating
\* it raises AttributeError, <<b>> when it evaluates to b
attach_response(m, cf) ==
  IF m = "int" THEN << cf.remove_response >>
  ELSE IF "attach_response" \in FetcherAttrs(m) THEN << cf.remove_response >>
  ELSE <<>>

Min(a, b) == IF a <= b THEN a ELSE b
Count(seq, x) == Cardinality({ k \in DOMAIN seq : seq[k] = x })
Range(seq) == { seq[k] : k \in DOMAIN seq }

\* int(trace_length): INTFetcher counts trace_len in seconds, WaveformFetcher
\* counts the two margins in ticks, a hundred to the second
trace_length(m, cf, sampling_rate) ==
  IF m = "int" THEN cf.trace_len * sampling_rate
  ELSE ((cf.time_before_p + cf.time_after_p) * sampling_rate) \div 100

\* st_raw.resample(rate): every trace gets int(npts * rate / old rate) samples
resampled(resp, rate) ==
  [resp EXCEPT !.rate = rate,
               !.npts = [c \in 1..Len(resp.npts) |-> (resp.npts[c] * rate) \div resp.rate]]

\* mutant: the stream is taken whether or not it has gaps
_download_waveforms_gaps_ignored(m, cf, sr, event, resp) ==
  LET attach == attach_response(m, cf)
      failed(requested, rate) ==
        [raised |-> TRUE, requested |-> requested, attach |-> attach,
         sampling_rate |-> rate, data |-> <<>>]
      conditioned == cf.detrend \/ cf.remove_response \/ cf.resample # 0
      st_raw == IF cf.resample # 0 THEN resampled(resp, cf.resample) ELSE resp
      n == trace_length(m, cf, st_raw.rate)
      data == [c \in 1..Len(st_raw.npts) |-> Min(st_raw.npts[c], n)]
  IN  IF attach = <<>> THEN failed(FALSE, sr)
      ELSE IF event.trace_start_time.nan \/ event.trace_end_time.nan
        THEN failed(FALSE, sr)
      ELSE IF resp.kind = "error" THEN failed(TRUE, sr)
      ELSE IF conditioned /\ ~resp.cond_ok THEN failed(TRUE, sr)
      ELSE IF \E c \in DOMAIN data : data[c] # data[1]
        THEN failed(TRUE, << st_raw.rate >>)
      ELSE [raised |-> FALSE, requested |-> TRUE, attach |-> attach,
            sampling_rate |-> << st_raw.rate >>, data |-> data]

\* mutant: station.sampling_rate assigned only while it is unset
_download_waveforms_set_once(m, cf, sr, event, resp) ==
  LET attach == attach_response(m, cf)
      failed(requested, rate) ==
        [raised |-> TRUE, requested |-> requested, attach |-> attach,
         sampling_rate |-> rate, data |-> <<>>]
      conditioned == cf.detrend \/ cf.remove_response \/ cf.resample # 0
      st_raw == IF cf.resample # 0 THEN resampled(resp, cf.resample) ELSE resp
      n == trace_length(m, cf, st_raw.rate)
      data == [c \in 1..Len(st_raw.npts) |-> Min(st_raw.npts[c], n)]
  IN  IF attach = <<>> THEN failed(FALSE, sr)
      ELSE IF event.trace_start_time.nan \/ event.trace_end_time.nan
        THEN failed(FALSE, sr)
      ELSE IF resp.kind = "error" THEN failed(TRUE, sr)
      ELSE IF conditioned /\ ~resp.cond_ok THEN failed(TRUE, sr)
      ELSE IF resp.gaps THEN failed(TRUE, sr)
      ELSE IF \E c \in DOMAIN data : data[c] # data[1]
        THEN failed(TRUE, IF sr = <<>> THEN << st_raw.rate >> ELSE sr)
      ELSE [raised |-> FALSE, requested |-> TRUE, attach |-> attach,
            sampling_rate |-> IF sr = <<>> THEN << st_raw.rate >> ELSE sr,
            data |-> data]

\* [raised, requested, attach, sampling_rate, data]: the outcome of one call,
\* sampling_rate being station.sampling_rate after it
_download_waveforms(m, cf, sr, event, resp) ==
  LET attach == attach_response(m, cf)
      failed(requested, rate) ==
        [raised |-> TRUE, requested |-> requested, attach |-> attach,
         sampling_rate |-> rate, data |-> <<>>]
      conditioned == cf.detrend \/ cf.remove_response \/ cf.resample # 0
      st_raw == IF cf.resample # 0 THEN resampled(resp, cf.resample) ELSE resp
      n == trace_length(m, cf, st_raw.rate)
      data == [c \in 1..Len(st_raw.npts) |-> Min(st_raw.npts[c], n)]
  IN  IF attach = <<>> THEN failed(FALSE, sr)
      ELSE IF event.trace_start_time.nan \/ event.trace_end_time.nan
        THEN failed(FALSE, sr)
      ELSE IF resp.kind = "error" THEN failed(TRUE, sr)
      ELSE IF conditioned /\ ~resp.cond_ok THEN failed(TRUE, sr)
      ELSE IF resp.gaps THEN failed(TRUE, sr)
      ELSE IF \E c \in DOMAIN data : data[c] # data[1]
        THEN failed(TRUE, << st_raw.rate >>)
      ELSE [raised |-> FALSE, requested |-> TRUE, attach |-> attach,
            sampling_rate |-> << st_raw.rate >>, data |-> data]

(* ------------------------------------------------------------------ *)
(* The writer: _create_dataset, _append_attributes, _save_attributes  *)
(* ------------------------------------------------------------------ *)
\* f'{self.station.name}.{self.network}.{event.id}'
TraceKey(event) == <<StationName, ".", Network, ".", event.id>>

\* h5py names the dataset by its absolute path
DatasetName(key) == <<"/">> \o key

\* file.create_dataset(name, data): <<>> when it raises (the name exists, or
\* the write fails), else << the file's new contents >>
_create_dataset(data, event, waveform, io_ok) ==
  IF TraceKey(event) \in DOMAIN data \/ ~io_ok THEN <<>>
  ELSE << (TraceKey(event) :> waveform) @@ data >>

\* mutant: dataset.name, the leading slash kept
trace_name_whole(name) == name

\* dataset.name[1:]
trace_name(name) == Tail(name)

_generate_attributes(m, st, event, name) ==
  IF m = "int"
  THEN [trace_name |-> trace_name(name),
        trace_start_time |-> event.trace_start_time,
        rec_network |-> Network,
        rec_name |-> StationName,
        rec_sampling_rate_hz |-> st.sampling_rate,
        src_id |-> event.id]
  ELSE [trace_name |-> trace_name(name),
        trace_start_time |-> event.trace_start_time,
        rec_network |-> Network,
        rec_name |-> StationName,
        rec_sampling_rate_hz |-> st.sampling_rate,
        src_id |-> event.id,
        src_origin_time |-> event.time,
        src_latitude_deg |-> event.lon,
        src_longitude_deg |-> event.lat,
        src_depth_km |-> event.depth,
        src_magnitude |-> event.magnitude,
        p_travel_sec |-> event.p_travel_time_s]

\* mutant: the row put at the head of the list
_append_attributes_front(list, m, st, event, name) ==
  << _generate_attributes(m, st, event, name) >> \o list

_append_attributes(list, m, st, event, name) ==
  Append(list, _generate_attributes(m, st, event, name))

\* pd.DataFrame(self._attr_list).to_csv(...): the file is replaced
_save_attributes(list) == [exists |-> TRUE, rows |-> list]

(* ------------------------------------------------------------------ *)
(* The batch run                                                      *)
(* ------------------------------------------------------------------ *)
IntConfs ==
  { [start_date |-> 0, end_date |-> e, interval |-> s, trace_len |-> t,
     time_before_p |-> 0, time_after_p |-> 0, catalog_file |-> <<>>,
     detrend |-> c.detrend, remove_response |-> c.remove_response,
     resample |-> c.resample] :
    e \in 0..MaxEnd, s \in {1, 2}, t \in {1, 2}, c \in Conditionings }

CsvConfs ==
  { [start_date |-> 0, end_date |-> 0, interval |-> 0, trace_len |-> 0,
     time_before_p |-> b, time_after_p |-> 150, catalog_file |-> f,
     detrend |-> c.detrend, remove_response |-> c.remove_response,
     resample |-> c.resample] :
    b \in {0, 50}, f \in CatalogFiles, c \in Conditionings }

NoCall == [op |-> "none", recv |-> 0, kind |-> "none", v |-> 0,
           call |-> [args |-> <<>>, kwargs |-> <<>>]]

NoEntities ==
  /\ folder = NoFolder
  /\ procs = <<>>
  /\ arrays = <<>>
  /\ series = <<>>
  /\ wfs = <<>>
  /\ ds = <<>>
  /\ ret = NoCall
  /\ calls = <<>>
  /\ nops = 0

Unresolved == [resolved |-> FALSE, sampling_rate |-> <<>>]

\* no fetcher is running
NoBatch ==
  /\ mode = "int"
  /\ conf = <<>>
  /\ pc = "idle"
  /\ station = Unresolved
  /\ catalog = <<>>
  /\ i = 1
  /\ dir = FALSE
  /\ h5 = NoFile
  /\ csv = NoTable
  /\ attr_list = <<>>
  /\ log = <<>>
  /\ reqs = <<>>
  /\ flushes = 0
  /\ outcomes = <<>>
  /\ tt_answers = <<>>
  /\ envFaults = {}

Init ==
  /\ mode \in {"int", "csv"}
  /\ conf \in IF mode = "int" THEN IntConfs ELSE CsvConfs
  /\ pc = "new"
  /\ station = Unresolved
  /\ catalog = <<>>
  /\ i = 1
  /\ dir = FALSE
  /\ h5 = NoFile
  /\ csv = NoTable
  /\ attr_list = <<>>
  /\ log = <<>>
  /\ reqs = <<>>
  /\ flushes = 0
  /\ outcomes = <<>>
  /\ tt_answers = <<>>
  /\ envFaults = {}
  /\ prior = NoPrior
  /\ gen = <<>>
  /\ NoEntities

\* mutant: _create_directory called before _Station(...)
Construct_mkdir_first ==
  /\ pc = "new"
  /\ \E answer \in MetadataAnswers :
       IF answer = "ok"
       THEN /\ station' = [resolved |-> TRUE, sampling_rate |-> <<>>]
            /\ catalog' = IF mode = "int"
                          THEN _generate_catalog(conf.start_date, conf.end_date,
                                                 conf.interval, conf.trace_len)
                          ELSE conf.catalog_file
            /\ dir' = TRUE
            /\ pc' = IF mode = "int" THEN "ready" ELSE "constructed"
       ELSE /\ pc' = "aborted"
            /\ dir' = TRUE
            /\ UNCHANGED <<station, catalog>>
  /\ UNCHANGED <<mode, conf, i, h5, csv, attr_list, log, reqs, flushes, outcomes,
                 tt_answers, envFaults>>
  /\ UNCHANGED <<prior, gen, entityVars, bulkVars>>

\* __init__: _Station(...), then the catalog, then _create_directory
Construct ==
  /\ pc = "new"
  /\ \E answer \in MetadataAnswers :
       IF answer = "ok"
       THEN /\ station' = [resolved |-> TRUE, sampling_rate |-> <<>>]
            /\ catalog' = IF mode = "int"
                          THEN _generate_catalog(conf.start_date, conf.end_date,
                                                 conf.interval, conf.trace_len)
                          ELSE conf.catalog_file
            /\ dir' = TRUE
            /\ pc' = IF mode = "int" THEN "ready" ELSE "constructed"
       ELSE /\ pc' = "aborted"
            /\ UNCHANGED <<station, catalog, dir>>
  /\ UNCHANGED <<mode, conf, i, h5, csv, attr_list, log, reqs, flushes, outcomes,
                 tt_answers, envFaults>>
  /\ UNCHANGED <<prior, gen, entityVars, bulkVars>>

\* create_waveform_catalog, first statement
CalculatePTravelTimes ==
  /\ pc = "constructed"
  /\ \E answers \in [1..Len(catalog) -> ArrivalLists] :
       /\ catalog' = _calculate_p_travel_times(catalog, answers)
       /\ tt_answers' = answers
  /\ pc' = "travel_times"
  /\ UNCHANGED <<mode, conf, station, i, dir, h5, csv, attr_list, log, reqs,
                 flushes, outcomes, envFaults>>
  /\ UNCHANGED <<prior, gen, entityVars, bulkVars>>

\* create_waveform_catalog, second statement.  UTCDateTime + NaN is the
\* library's: it raises, or it yields a time that is no time
CalculateTraceTimes ==
  /\ pc = "travel_times"
  /\ \/ /\ catalog' = _calculate_trace_times(catalog, conf.time_before_p,
                                             conf.time_after_p)
        /\ pc' = "ready"
     \/ /\ \E k \in 1..Len(catalog) : catalog[k].p_travel_time_s.nan
        /\ pc' = "aborted"
        /\ UNCHANGED catalog
  /\ UNCHANGED <<mode, conf, station, i, dir, h5, csv, attr_list, log, reqs,
                 flushes, outcomes, tt_answers, envFaults>>
  /\ UNCHANGED <<prior, gen, entityVars, bulkVars>>

\* mutant: the file opened with mode 'a', which keeps what it holds
OpenStore_append ==
  /\ pc = "ready"
  /\ h5' = [exists |-> TRUE, open |-> TRUE, data |-> h5.data]
  /\ pc' = "loop"
  /\ UNCHANGED <<mode, conf, station, catalog, i, dir, csv, attr_list, log,
                 reqs, flushes, outcomes, tt_answers, envFaults>>
  /\ UNCHANGED <<prior, gen, entityVars, bulkVars>>

\* with h5py.File(..., 'w') as f: the file is created or truncated
OpenStore ==
  /\ pc = "ready"
  /\ h5' = [exists |-> TRUE, open |-> TRUE, data |-> <<>>]
  /\ pc' = "loop"
  /\ UNCHANGED <<mode, conf, station, catalog, i, dir, csv, attr_list, log,
                 reqs, flushes, outcomes, tt_answers, envFaults>>
  /\ UNCHANGED <<prior, gen, entityVars, bulkVars>>

\* the request of this iteration, if one is issued, with what it was
\* answered: the stream's gaps and the sampling rate its traces report
Issued(r, resp) ==
  IF r.requested
  THEN << [i |-> i, attach_response |-> r.attach[1], kind |-> resp.kind,
           cond_ok |-> resp.cond_ok, gaps |-> resp.gaps, rate |-> resp.rate] >>
  ELSE <<>>

\* mutant: the except branch logs and raises again
EventSkipped_reraise ==
  /\ pc = "loop"
  /\ i <= Len(catalog)
  /\ \E resp \in Responses :
       LET r == _download_waveforms(mode, conf, station.sampling_rate, catalog[i], resp)
       IN  /\ r.raised
           /\ log' = Append(log, catalog[i].id)
           /\ station' = [station EXCEPT !.sampling_rate = r.sampling_rate]
           /\ reqs' = reqs \o Issued(r, resp)
           /\ envFaults' = IF r.requested THEN envFaults \cup {i} ELSE envFaults
  /\ outcomes' = Append(outcomes, "skipped")
  /\ h5' = [h5 EXCEPT !.open = FALSE]
  /\ pc' = "aborted"
  /\ UNCHANGED <<mode, conf, i, catalog, dir, csv, attr_list, flushes,
                 tt_answers>>
  /\ UNCHANGED <<prior, gen, entityVars, bulkVars>>

\* one iteration whose _download_waveforms raises: the except branch
EventSkipped ==
  /\ pc = "loop"
  /\ i <= Len(catalog)
  /\ \E resp \in Responses :
       LET r == _download_waveforms(mode, conf, station.sampling_rate, catalog[i], resp)
       IN  /\ r.raised
           /\ log' = Append(log, catalog[i].id)
           /\ station' = [station EXCEPT !.sampling_rate = r.sampling_rate]
           /\ reqs' = reqs \o Issued(r, resp)
           /\ envFaults' = IF r.requested THEN envFaults \cup {i} ELSE envFaults
  /\ outcomes' = Append(outcomes, "skipped")
  /\ i' = i + 1
  /\ UNCHANGED <<mode, conf, pc, catalog, dir, h5, csv, attr_list, flushes,
                 tt_answers>>
  /\ UNCHANGED <<prior, gen, entityVars, bulkVars>>
\* the variant that writes the row with the rate the station had before the
\* event's stream was read
EventAccepted_rate_before ==
  /\ pc = "loop"
  /\ i <= Len(catalog)
  /\ \E resp \in Responses, io_ok \in BOOLEAN :
       LET r == _download_waveforms(mode, conf, station.sampling_rate, catalog[i], resp)
           st == [station EXCEPT !.sampling_rate = r.sampling_rate]
           created == _create_dataset(h5.data, catalog[i], r.data, io_ok)
       IN  /\ ~r.raised
           /\ created # <<>>
           /\ station' = st
           /\ reqs' = reqs \o Issued(r, resp)
           /\ h5' = [h5 EXCEPT !.data = created[1]]
           /\ attr_list' = _append_attributes(attr_list, mode, station, catalog[i],
                                              DatasetName(TraceKey(catalog[i])))
  /\ outcomes' = Append(outcomes, "accepted")
  /\ i' = i + 1
  /\ UNCHANGED <<mode, conf, pc, catalog, dir, csv, log, flushes, tt_answers,
                 envFaults>>
  /\ UNCHANGED <<prior, gen, entityVars, bulkVars>>

\* one iteration that downloads, writes the segment and buffers its row
EventAccepted ==
  /\ pc = "loop"
  /\ i <= Len(catalog)
  /\ \E resp \in Responses, io_ok \in BOOLEAN :
       LET r == _download_waveforms(mode, conf, station.sampling_rate, catalog[i], resp)
           st == [station EXCEPT !.sampling_rate = r.sampling_rate]
           created == _create_dataset(h5.data, catalog[i], r.data, io_ok)
       IN  /\ ~r.raised
           /\ created # <<>>
           /\ station' = st
           /\ reqs' = reqs \o Issued(r, resp)
           /\ h5' = [h5 EXCEPT !.data = created[1]]
           /\ attr_list' = _append_attributes(attr_list, mode, st, catalog[i],
                                              DatasetName(TraceKey(catalog[i])))
  /\ outcomes' = Append(outcomes, "accepted")
  /\ i' = i + 1
  /\ UNCHANGED <<mode, conf, pc, catalog, dir, csv, log, flushes, tt_answers,
                 envFaults>>
  /\ UNCHANGED <<prior, gen, entityVars, bulkVars>>

\* one iteration whose create_dataset raises: nothing catches it, the with
\* block closes the file and the run ends
EventWriteFails ==
  /\ pc = "loop"
  /\ i <= Len(catalog)
  /\ \E resp \in Responses, io_ok \in BOOLEAN :
       LET r == _download_waveforms(mode, conf, station.sampling_rate, catalog[i], resp)
       IN  /\ ~r.raised
           /\ _create_dataset(h5.data, catalog[i], r.data, io_ok) = <<>>
           /\ station' = [station EXCEPT !.sampling_rate = r.sampling_rate]
           /\ reqs' = reqs \o Issued(r, resp)
  /\ envFaults' = envFaults \cup {i}
  /\ h5' = [h5 EXCEPT !.open = FALSE]
  /\ outcomes' = Append(outcomes, "write_failed")
  /\ pc' = "aborted"
  /\ UNCHANGED <<mode, conf, catalog, i, dir, csv, attr_list, log, flushes,
                 tt_answers>>
  /\ UNCHANGED <<prior, gen, entityVars, bulkVars>>

\* mutant: _save_attributes() one indentation level out, after the with block
SaveAttributes_after_with ==
  /\ pc = "loop"
  /\ i > Len(catalog)
  /\ h5' = [h5 EXCEPT !.open = FALSE]
  /\ csv' = _save_attributes(attr_list)
  /\ flushes' = flushes + 1
  /\ pc' = "flushed"
  /\ UNCHANGED <<mode, conf, station, catalog, i, dir, attr_list, log, reqs,
                 outcomes, tt_answers, envFaults>>
  /\ UNCHANGED <<prior, gen, entityVars, bulkVars>>

\* self._save_attributes(), after the loop and inside the with block
SaveAttributes ==
  /\ pc = "loop"
  /\ i > Len(catalog)
  /\ csv' = _save_attributes(attr_list)
  /\ flushes' = flushes + 1
  /\ pc' = "flushed"
  /\ UNCHANGED <<mode, conf, station, catalog, i, dir, h5, attr_list, log, reqs,
                 outcomes, tt_answers, envFaults>>
  /\ UNCHANGED <<prior, gen, entityVars, bulkVars>>

\* the with block ends
CloseStore ==
  /\ pc = "flushed"
  /\ h5' = [h5 EXCEPT !.open = FALSE]
  /\ pc' = "done"
  /\ UNCHANGED <<mode, conf, station, catalog, i, dir, csv, attr_list, log, reqs,
                 flushes, outcomes, tt_answers, envFaults>>
  /\ UNCHANGED <<prior, gen, entityVars, bulkVars>>

Next ==
  \/ Construct
  \/ CalculatePTravelTimes
  \/ CalculateTraceTimes
  \/ OpenStore
  \/ EventSkipped
  \/ EventAccepted
  \/ EventWriteFails
  \/ SaveAttributes
  \/ CloseStore

Spec == Init /\ [][Next]_vars

(* ------------------------------------------------------------------ *)
(* Properties of the batch run                                        *)
(* ------------------------------------------------------------------ *)
TraceNames(rows) == { rows[k].trace_name : k \in DOMAIN rows }
\* catalog ids of the iterations that ended as skipped, in order
RECURSIVE SkippedIds(_)
SkippedIds(n) ==
  IF n = 0 THEN <<>>
  ELSE IF outcomes[n] = "skipped" THEN Append(SkippedIds(n - 1), catalog[n].id)
  ELSE SkippedIds(n - 1)

\* C1: when a batch run has reached its end, the keys of the binary store
\* are exactly the trace_name values of the flushed attribute table, and no
\* trace_name occurs in two rows.
C1_StoreTableBijection ==
  pc \in {"flushed", "done"} =>
    /\ csv.exists
    /\ DOMAIN h5.data = TraceNames(csv.rows)
    /\ \A a, b \in DOMAIN csv.rows :
         csv.rows[a].trace_name = csv.rows[b].trace_name => a = b

C1_Witness ==
  /\ pc = "done"
  /\ Count(outcomes, "accepted") >= 2
  /\ Count(outcomes, "skipped") >= 1

\* C2: an iteration whose acquisition raises leaves the binary store and the
\* attribute buffer as they were, logs exactly one skip message naming the
\* event's id, and moves the loop on to the next catalog row; a run that
\* reaches flush has attempted every catalog row.
C2_SkipIsolated ==
  /\ [][ (Len(outcomes') = Len(outcomes) + 1 /\ outcomes'[Len(outcomes')] = "skipped")
         => /\ h5' = h5
            /\ attr_list' = attr_list
            /\ log' = Append(log, catalog[i].id)
            /\ pc' = "loop"
            /\ i' = i + 1
            /\ catalog' = catalog ]_vars
  /\ [](pc \in {"flushed", "done"} =>
          /\ Len(outcomes) = Len(catalog)
          /\ log = SkippedIds(Len(outcomes)))

C2_Witness ==
  /\ pc = "done"
  /\ Len(outcomes) = 3
  /\ outcomes[1] = "accepted"
  /\ outcomes[2] = "skipped"
  /\ outcomes[3] = "accepted"
  /\ log = << catalog[2].id >>

\* C3 (as claimed): in explicit mode, a run over N events of which exactly one
\* has no arrival, the environment failing for none, does not abort and ends
\* with N-1 rows, N-1 entries and a skip logged for the event without arrival.
NoArrival == { k \in DOMAIN tt_answers : tt_answers[k] = <<>> }

C3_Original ==
  ( /\ mode = "csv"
    /\ pc \in {"done", "aborted"}
    /\ Cardinality(NoArrival) = 1
    /\ envFaults = {} )
  => /\ pc = "done"
     /\ Len(csv.rows) = Len(catalog) - 1
     /\ Cardinality(DOMAIN h5.data) = Len(catalog) - 1
     /\ \E k \in NoArrival : catalog[k].id \in Range(log)

\* C4 (as claimed): a batch run that entered its loop and has ended has
\* written the attribute table.
C4_Original ==
  (h5.exists /\ pc \in {"done", "aborted"}) => flushes >= 1

\* C6: in explicit mode every catalog row with an arrival gets the window
\* start = origin_time + t - time_before_p, end = origin_time + t +
\* time_after_p, t being the first arrival's time rounded as the estimator
\* stores it; the window is time_before_p + time_after_p wide.
C6_ExplicitWindow ==
  (mode = "csv" /\ pc \in {"ready", "loop", "flushed", "done"}) =>
    \A k \in DOMAIN catalog :
      tt_answers[k] # <<>> =>
        LET t == Round5(tt_answers[k][1])
            row == catalog[k]
        IN  /\ row.p_travel_time_s = Num(t)
            /\ row.trace_start_time = Num(row.time + t - conf.time_before_p)
            /\ row.trace_end_time = Num(row.time + t + conf.time_after_p)
            /\ row.trace_end_time.v - row.trace_start_time.v
                 = conf.time_before_p + conf.time_after_p

C6_Witness ==
  /\ mode = "csv"
  /\ pc = "ready"
  /\ conf.time_before_p > 0
  /\ \E k \in DOMAIN catalog : Len(tt_answers[k]) = 2

\* C10: in a run that reaches its end flush happens exactly once, while the
\* binary store is open; nothing is written to the store after flush; flush
\* happens also when no event was accepted.
C10_FlushOnceInsideScope ==
  /\ [](pc \in {"flushed", "done"} => flushes = 1 /\ csv.exists /\ csv.rows = attr_list)
  /\ [](pc \in {"new", "constructed", "travel_times", "ready", "loop"} => flushes = 0)
  /\ [][flushes' # flushes => (h5.open /\ h5'.open /\ flushes' = flushes + 1)]_vars
  /\ [][flushes >= 1 => (h5'.data = h5.data /\ attr_list' = attr_list)]_vars

C10_Witness ==
  /\ pc = "flushed"
  /\ h5.open
  /\ flushes = 1
  /\ Count(outcomes, "accepted") >= 1
  /\ outcomes[Len(outcomes)] = "skipped"

C10_WitnessNoneAccepted ==
  /\ pc = "done"
  /\ flushes = 1
  /\ Len(catalog) >= 1
  /\ Count(outcomes, "accepted") = 0

(* ------------------------------------------------------------------ *)
(* SpecCatalog: INTFetcher._generate_catalog over its arguments       *)
(* ------------------------------------------------------------------ *)
GridArgs ==
  { [start_date |-> s, end_date |-> e, interval |-> d, trace_len |-> t,
     generated |-> FALSE, catalog |-> <<>>] :
    s \in 0..2, e \in 0..MaxGridEnd, d \in 1..MaxGridStep, t \in 1..3 }

InitCatalog ==
  /\ gen \in { g \in GridArgs : g.start_date <= g.end_date }
  /\ NoBatch
  /\ prior = NoPrior
  /\ NoEntities

GenerateCatalog ==
  /\ ~gen.generated
  /\ gen' = [gen EXCEPT !.generated = TRUE,
                        !.catalog = _generate_catalog(gen.start_date, gen.end_date,
                                                      gen.interval, gen.trace_len)]
  /\ UNCHANGED <<batchVars, prior, entityVars, bulkVars>>

NextCatalog == GenerateCatalog

SpecCatalog == InitCatalog /\ [][NextCatalog]_vars

MaxWaveforms == 2    \* a dataset holds 1..MaxWaveforms waveforms
MaxOps == 1          \* calls made to the entity layer in one behaviour

(* Values of attributes: references to objects, or scalars.  Scalars   *)
(* (numbers, names of traces) are integers.                            *)
ArrayRef(a) == [t |-> "array", v |-> a]
SeriesRef(r) == [t |-> "series", v |-> r]
PlotterObj == [t |-> "plotter", v |-> 0]
ProcessorObj == [t |-> "processor", v |-> 0]
Scalar(x) == [t |-> "scalar", v |-> x]

Raise(err, H) == [kind |-> "raise", err |-> err, v |-> 0, H |-> H]
Return(kind, v, H) == [kind |-> kind, err |-> "", v |-> v, H |-> H]

\* the methods of class Waveform
WaveformMethods == {"filter", "taper", "plot", "plot_spectra", "plot_spectrogram"}

(* ------------------------------------------------------------------ *)
(* Waveform.__init__                                                  *)
(* ------------------------------------------------------------------ *)
\* the instance attributes after __init__: data, _attrs, _plotter and
\* _processor are assigned first, then every column of attrs is set
Promote(H, data, attrs) ==
  [c \in DOMAIN H.series[attrs.v] |-> Scalar(H.series[attrs.v][c])]
  @@ ("data" :> data) @@ ("_attrs" :> attrs)
  @@ ("_plotter" :> PlotterObj) @@ ("_processor" :> ProcessorObj)

\* Waveform(data, attrs): the new object is the last of H.wfs
Waveform__init__(H, data, attrs) ==
  IF attrs.t # "series" THEN Raise("AttributeError", H)
  ELSE Return("object", Len(H.wfs) + 1,
              [H EXCEPT !.wfs = Append(H.wfs, Promote(H, data, attrs))])

\* hasattr(wf, name) and getattr(wf, name): instance attributes first
hasattr(H, wf, name) == name \in DOMAIN H.wfs[wf] \/ name \in WaveformMethods

(* ------------------------------------------------------------------ *)
(* scipy.signal, on integer samples                                   *)
(* ------------------------------------------------------------------ *)
Reverse(x) == [n \in 1..Len(x) |-> x[Len(x) + 1 - n]]

\* one low-pass section: y[n] = (num * x[n] + (den - num) * y[n-1]) / den
RECURSIVE Section(_, _, _, _)
Section(x, n, num, den) ==
  IF n = 0 THEN <<>>
  ELSE LET y == Section(x, n - 1, num, den)
           prev == IF n = 1 THEN 0 ELSE y[n - 1]
       IN  Append(y, (num * x[n] + (den - num) * prev) \div den)

RECURSIVE Cascade(_, _, _, _)
Cascade(x, sections, num, den) ==
  IF sections = 0 THEN x
  ELSE Cascade(Section(x, Len(x), num, den), sections - 1, num, den)

\* butter(order, Wn, btype, output='sos') with Wn = num / den: <<>> when it
\* raises, else << the design >>.  Band filters are not among the inputs.
butter(order, num, den, btype) ==
  IF btype \notin {"lowpass", "highpass"} \/ order < 1 \/ ~(0 < num /\ num < den)
  THEN <<>>
  ELSE << [sections |-> (order + 1) \div 2, order |-> order, num |-> num,
           den |-> den, btype |-> btype] >>

sosfilt(sos, x) ==
  LET low == Cascade(x, sos.sections, sos.num, sos.den)
  IN  IF sos.btype = "lowpass" THEN low
      ELSE [n \in 1..Len(x) |-> x[n] - low[n]]

\* sosfiltfilt pads 3 * ntaps samples at each end, ntaps = order + 1 for a
\* Butterworth low- or high-pass, and raises unless the signal is longer
padlen(sos) == 3 * (sos.order + 1)

sosfiltfilt(sos, x) ==
  IF Len(x) <= padlen(sos) THEN <<>>
  ELSE << Reverse(sosfilt(sos, Reverse(sosfilt(sos, x)))) >>

\* get_window(window_type, N) as a numerator and a denominator per sample
get_window(window_type, N) ==
  IF window_type = "boxcar" THEN << [n \in 1..N |-> [num |-> 1, den |-> 1]] >>
  ELSE IF window_type = "bartlett"
    THEN << [n \in 1..N |->
               IF N = 1 THEN [num |-> 1, den |-> 1]
               ELSE LET d == 2 * (n - 1) - (N - 1)
                    IN  [num |-> (N - 1) - (IF d < 0 THEN -d ELSE d),
                         den |-> N - 1]] >>
  ELSE <<>>

(* ------------------------------------------------------------------ *)
(* WaveformProcessor                                                  *)
(* ------------------------------------------------------------------ *)
\* binding of a call to the parameters of filter(filter_type, cutoff,
\* order=5, zero_phase=True): <<>> when the call raises TypeError
FilterParams == <<"filter_type", "cutoff", "order", "zero_phase">>
FilterDefaults == [order |-> 5, zero_phase |-> TRUE]

BindFilter(args, kwargs) ==
  LET positional == { FilterParams[k] : k \in 1..Min(Len(args), 4) }
      bound(p) ==
        IF \E k \in 1..Min(Len(args), 4) : FilterParams[k] = p
        THEN args[CHOOSE k \in 1..4 : FilterParams[k] = p]
        ELSE IF p \in DOMAIN kwargs THEN kwargs[p]
        ELSE FilterDefaults[p]
  IN  IF \/ Len(args) > 4
         \/ positional \cap DOMAIN kwargs # {}
         \/ DOMAIN kwargs \ Range(FilterParams) # {}
         \/ {"filter_type", "cutoff"} \ (positional \cup DOMAIN kwargs) # {}
      THEN <<>>
      ELSE << [filter_type |-> bound("filter_type"), cutoff |-> bound("cutoff"),
               order |-> bound("order"), zero_phase |-> bound("zero_phase")] >>

\* the channels of an array filtered one by one: <<>> when one raises
FilterChannels(sos, signals, zero_phase) ==
  IF zero_phase /\ \E c \in DOMAIN signals : sosfiltfilt(sos, signals[c]) = <<>>
  THEN <<>>
  ELSE << [c \in DOMAIN signals |->
             IF zero_phase THEN sosfiltfilt(sos, signals[c])[1]
             ELSE sosfilt(sos, signals[c])] >>

\* the filter variant that stores the filtered channels into self.wv.data
WaveformProcessor_filter_inplace(H, wv, args, kwargs) ==
  LET self == H.wfs[wv]
      b == BindFilter(args, kwargs)
  IN  IF b = <<>> THEN Raise("TypeError", H)
      ELSE IF "sampling_rate_hz" \notin DOMAIN self THEN Raise("AttributeError", H)
      ELSE IF self["sampling_rate_hz"].t # "scalar" THEN Raise("TypeError", H)
      ELSE
        LET sos == butter(b[1].order, 2 * b[1].cutoff, self["sampling_rate_hz"].v,
                          b[1].filter_type)
        IN  IF sos = <<>> THEN Raise("ValueError", H)
            ELSE IF self["data"].t # "array" THEN Raise("TypeError", H)
            ELSE
              LET filtered_signals ==
                    FilterChannels(sos[1], H.arrays[self["data"].v], b[1].zero_phase)
              IN  IF filtered_signals = <<>> THEN Raise("ValueError", H)
                  ELSE Waveform__init__(
                         [H EXCEPT !.arrays[self["data"].v] = filtered_signals[1]],
                         self["data"], self["_attrs"])

\* WaveformProcessor.filter of the processor of waveform wv
WaveformProcessor_filter(H, wv, args, kwargs) ==
  LET self == H.wfs[wv]
      b == BindFilter(args, kwargs)
  IN  IF b = <<>> THEN Raise("TypeError", H)
      ELSE IF "sampling_rate_hz" \notin DOMAIN self THEN Raise("AttributeError", H)
      ELSE IF self["sampling_rate_hz"].t # "scalar" THEN Raise("TypeError", H)
      ELSE
        LET sos == butter(b[1].order, 2 * b[1].cutoff, self["sampling_rate_hz"].v,
                          b[1].filter_type)
        IN  IF sos = <<>> THEN Raise("ValueError", H)
            ELSE IF self["data"].t # "array" THEN Raise("TypeError", H)
            ELSE
              LET filtered_signals ==
                    FilterChannels(sos[1], H.arrays[self["data"].v], b[1].zero_phase)
              IN  IF filtered_signals = <<>> THEN Raise("ValueError", H)
                  ELSE Waveform__init__(
                         [H EXCEPT !.arrays = Append(H.arrays, filtered_signals[1])],
                         ArrayRef(Len(H.arrays) + 1), self["_attrs"])

\* signal * window, stored into an array of the samples' type
Tapered(signal, window) ==
  [n \in 1..Len(signal) |-> (signal[n] * window[n].num) \div window[n].den]

\* the taper variant that hands the receiver's array to the new Waveform
WaveformProcessor_taper_shared(H, wv, args, kwargs) ==
  LET self == H.wfs[wv]
      positional == IF Len(args) >= 1 THEN {"window_type"} ELSE {}
  IN  IF \/ positional \cap DOMAIN kwargs # {}
         \/ DOMAIN kwargs \ {"window_type"} # {}
         \/ positional \cup DOMAIN kwargs = {}
      THEN Raise("TypeError", H)
      ELSE IF self["data"].t # "array" THEN Raise("TypeError", H)
      ELSE
        LET window_type == IF Len(args) >= 1 THEN args[1] ELSE kwargs["window_type"]
            signals == H.arrays[self["data"].v]
            windows == [c \in DOMAIN signals |-> get_window(window_type, Len(signals[c]))]
        IN  IF DOMAIN signals # {} /\ \E c \in DOMAIN signals : windows[c] = <<>>
            THEN Raise("ValueError", H)
            ELSE IF DOMAIN signals # {} /\ Len(args) > 1 THEN Raise("TypeError", H)
            ELSE Waveform__init__(
                   [H EXCEPT !.arrays[self["data"].v] =
                      [c \in DOMAIN signals |-> Tapered(signals[c], windows[c][1])]],
                   self["data"], self["_attrs"])

\* WaveformProcessor.taper(window_type, *args): with further positional
\* arguments the window is get_window((window_type, *args), N), which a
\* window without parameters answers with a TypeError
WaveformProcessor_taper(H, wv, args, kwargs) ==
  LET self == H.wfs[wv]
      positional == IF Len(args) >= 1 THEN {"window_type"} ELSE {}
  IN  IF \/ positional \cap DOMAIN kwargs # {}
         \/ DOMAIN kwargs \ {"window_type"} # {}
         \/ positional \cup DOMAIN kwargs = {}
      THEN Raise("TypeError", H)
      ELSE IF self["data"].t # "array" THEN Raise("TypeError", H)
      ELSE
        LET window_type == IF Len(args) >= 1 THEN args[1] ELSE kwargs["window_type"]
            signals == H.arrays[self["data"].v]
            windows == [c \in DOMAIN signals |-> get_window(window_type, Len(signals[c]))]
        IN  IF DOMAIN signals # {} /\ \E c \in DOMAIN signals : windows[c] = <<>>
            THEN Raise("ValueError", H)
            ELSE IF DOMAIN signals # {} /\ Len(args) > 1 THEN Raise("TypeError", H)
            ELSE Waveform__init__(
                   [H EXCEPT !.arrays =
                      Append(H.arrays,
                             [c \in DOMAIN signals |-> Tapered(signals[c], windows[c][1])])],
                   ArrayRef(Len(H.arrays) + 1), self["_attrs"])

\* WaveformPlotter.plot_waveform: it reads data and trace_name and draws
WaveformPlotter_plot_waveform(H, wv, args, kwargs) ==
  LET self == H.wfs[wv]
  IN  IF Len(args) > 2 \/ DOMAIN kwargs \ {"save_figure", "save_extension"} # {}
      THEN Raise("TypeError", H)
      ELSE IF self["data"].t # "array" THEN Raise("TypeError", H)
      ELSE IF Len(H.arrays[self["data"].v]) < 2 THEN Raise("TypeError", H)
      ELSE IF "trace_name" \notin DOMAIN self THEN Raise("AttributeError", H)
      ELSE Return("none", 0, H)

(* ------------------------------------------------------------------ *)
(* sync_signature and the methods of Waveform                         *)
(* ------------------------------------------------------------------ *)
\* inspect.signature(target_method).parameters, by name
SigParameters(method_name) ==
  CASE method_name = "filter" -> Range(FilterParams)
    [] method_name = "taper" -> {"window_type", "args"}
    [] method_name = "plot_waveform" -> {"save_figure", "save_extension"}
    [] method_name = "plot_spectra" ->
         {"log_scale", "plot_waveform", "save_figure", "save_extension"}
    [] method_name = "plot_spectrogram" ->
         {"nperseg", "noverlap", "log_scale", "zero_padding_factor", "plot_waveform",
          "colorbar", "cmap", "save_figure", "save_extension"}

Restrict(f, S) == [k \in DOMAIN f \cap S |-> f[k]]

\* the wrapper variant that hands every keyword argument to the target
wrapper_unfiltered(H, self, attribute_name, method_name, args, kwargs) ==
  LET target_instance == H.wfs[self][attribute_name]
  IN  IF target_instance.t \notin {"processor", "plotter"}
      THEN Raise("AttributeError", H)
      ELSE CASE method_name = "filter" ->
                  WaveformProcessor_filter(H, self, args, kwargs)
             [] method_name = "taper" ->
                  WaveformProcessor_taper(H, self, args, kwargs)
             [] method_name = "plot_waveform" ->
                  WaveformPlotter_plot_waveform(H, self, args, kwargs)

\* the wrapper sync_signature(attribute_name, method_name, cls) puts in the
\* place of the decorated method
wrapper(H, self, attribute_name, method_name, args, kwargs) ==
  LET target_instance == H.wfs[self][attribute_name]
      filtered_kwargs == Restrict(kwargs, SigParameters(method_name))
  IN  IF target_instance.t \notin {"processor", "plotter"}
      THEN Raise("AttributeError", H)
      ELSE CASE method_name = "filter" ->
                  WaveformProcessor_filter(H, self, args, filtered_kwargs)
             [] method_name = "taper" ->
                  WaveformProcessor_taper(H, self, args, filtered_kwargs)
             [] method_name = "plot_waveform" ->
                  WaveformPlotter_plot_waveform(H, self, args, filtered_kwargs)

Waveform_filter(H, self, args, kwargs) ==
  wrapper(H, self, "_processor", "filter", args, kwargs)

Waveform_taper(H, self, args, kwargs) ==
  wrapper(H, self, "_processor", "taper", args, kwargs)

Waveform_plot(H, self, args, kwargs) ==
  wrapper(H, self, "_plotter", "plot_waveform", args, kwargs)

\* callable(getattr(wf, name)): an instance attribute shadows the method of
\* the class, and no instance attribute of a Waveform is callable
callable(H, wf, name) == name \notin DOMAIN H.wfs[wf] /\ name \in WaveformMethods

\* getattr(wf, name)(*args, **kwargs).  plot_spectra and plot_spectrogram
\* are not among the names called here.
Invoke(H, wf, name, args, kwargs) ==
  IF ~callable(H, wf, name) THEN Raise("TypeError", H)
  ELSE CASE name = "filter" -> Waveform_filter(H, wf, args, kwargs)
         [] name = "taper" -> Waveform_taper(H, wf, args, kwargs)
         [] name = "plot" -> Waveform_plot(H, wf, args, kwargs)

(* ------------------------------------------------------------------ *)
(* WaveformDataset                                                    *)
(* ------------------------------------------------------------------ *)
\* __init__: one Waveform per key of wavs, with the row of attrs at the
\* key's position; signals[k] is wavs[key k][()], table[k] is attrs.iloc[k]
RECURSIVE WaveformDataset__init__(_, _, _)
WaveformDataset__init__(signals, table, n) ==
  IF n = 0 THEN [arrays |-> <<>>, series |-> <<>>, wfs |-> <<>>]
  ELSE LET H == WaveformDataset__init__(signals, table, n - 1)
           H1 == [H EXCEPT !.arrays = Append(H.arrays, signals[n]),
                           !.series = Append(H.series, table[n])]
       IN  Waveform__init__(H1, ArrayRef(Len(H1.arrays)), SeriesRef(Len(H1.series))).H

\* the apply variant that passes over a waveform without the attribute
RECURSIVE apply_from_skipping(_, _, _, _, _, _, _)
apply_from_skipping(H, waveforms, k, invoked, method_name, args, kwargs) ==
  IF k > Len(waveforms) THEN [kind |-> "none", err |-> "", H |-> H, calls |-> invoked]
  ELSE LET wf == waveforms[k]
       IN  IF ~hasattr(H, wf, method_name)
           THEN apply_from_skipping(H, waveforms, k + 1, invoked, method_name, args, kwargs)
           ELSE LET r == Invoke(H, wf, method_name, args, kwargs)
                IN  IF r.kind = "raise"
                    THEN [kind |-> "raise", err |-> r.err, H |-> r.H,
                          calls |-> IF callable(H, wf, method_name)
                                    THEN Append(invoked, wf) ELSE invoked]
                    ELSE apply_from_skipping(r.H, waveforms, k + 1, Append(invoked, wf),
                                             method_name, args, kwargs)

\* apply, from the k-th waveform on: [kind, err, H, calls], calls being the
\* waveforms whose method was entered
RECURSIVE apply_from(_, _, _, _, _, _, _)
apply_from(H, waveforms, k, invoked, method_name, args, kwargs) ==
  IF k > Len(waveforms) THEN [kind |-> "none", err |-> "", H |-> H, calls |-> invoked]
  ELSE LET wf == waveforms[k]
       IN  IF ~hasattr(H, wf, method_name)
           THEN [kind |-> "raise", err |-> "AttributeError", H |-> H, calls |-> invoked]
           ELSE LET r == Invoke(H, wf, method_name, args, kwargs)
                IN  IF r.kind = "raise"
                    THEN [kind |-> "raise", err |-> r.err, H |-> r.H,
                          calls |-> IF callable(H, wf, method_name)
                                    THEN Append(invoked, wf) ELSE invoked]
                    ELSE apply_from(r.H, waveforms, k + 1, Append(invoked, wf),
                                    method_name, args, kwargs)

WaveformDataset_apply(H, waveforms, method_name, args, kwargs) ==
  apply_from(H, waveforms, 1, <<>>, method_name, args, kwargs)

(* ------------------------------------------------------------------ *)
(* SpecEntity: a dataset and the calls made on it                     *)
(* ------------------------------------------------------------------ *)
Short == <<3, 1, 2>>
Long == <<8, 0, 8, 0, 8, 0, 8, 0>>
Ramp == <<1, 2, 3, 4, 5, 6, 7, 8>>
Segments == { <<Short, Short>>, <<Long, Ramp>> }

\* the columns of an attribute table and the rows it may hold; trace names
\* are numbered, sampling rates are 4 or 8
Schemas ==
  { {"trace_name", "sampling_rate_hz"},
    {"trace_name", "rec_sampling_rate_hz"},
    {"trace_name", "sampling_rate_hz", "taper"} }
TableRow(schema, k, rate) ==
  [c \in schema |-> IF c = "trace_name" THEN k ELSE rate]

FilterCalls ==
  { [args |-> <<>>,
     kwargs |-> [filter_type |-> "lowpass", cutoff |-> 1, order |-> 1, zero_phase |-> TRUE]],
    [args |-> <<>>,
     kwargs |-> [filter_type |-> "highpass", cutoff |-> 1, zero_phase |-> FALSE]],
    [args |-> <<"lowpass", 3>>,
     kwargs |-> [order |-> 2, zero_phase |-> FALSE, verbose |-> TRUE]],
    [args |-> <<>>, kwargs |-> [cutoff |-> 1]] }

TaperCalls ==
  { [args |-> <<>>, kwargs |-> [window_type |-> "bartlett"]],
    [args |-> <<"boxcar">>, kwargs |-> [verbose |-> TRUE]],
    [args |-> <<>>, kwargs |-> [window_type |-> "nowindow"]] }

PlotCalls == { [args |-> <<>>, kwargs |-> [save_figure |-> FALSE]] }

CallsOf(method_name) ==
  CASE method_name = "filter" -> FilterCalls
    [] method_name = "taper" -> TaperCalls
    [] OTHER -> PlotCalls

MethodNames == {"filter", "taper", "plot", "trace_name", "resample"}

Heap == [arrays |-> arrays, series |-> series, wfs |-> wfs]

InitEntity ==
  /\ NoBatch
  /\ prior = NoPrior
  /\ gen = <<>>
  /\ folder = NoFolder
  /\ procs = <<>>
  /\ \E n \in 1..MaxWaveforms, schema \in Schemas :
       \E signals \in [1..n -> Segments], rates \in [1..n -> {4, 8}] :
         LET H == WaveformDataset__init__(
                    signals, [k \in 1..n |-> TableRow(schema, k, rates[k])], n)
         IN  /\ arrays = H.arrays
             /\ series = H.series
             /\ wfs = H.wfs
             /\ ds = [k \in 1..n |-> k]
  /\ ret = NoCall
  /\ calls = <<>>
  /\ nops = 0

SetHeap(H) ==
  /\ arrays' = H.arrays
  /\ series' = H.series
  /\ wfs' = H.wfs

\* wf.filter(*args, **kwargs) on a waveform of the program
CallFilter ==
  /\ nops < MaxOps
  /\ \E wf \in DOMAIN wfs, c \in FilterCalls :
       LET r == Waveform_filter(Heap, wf, c.args, c.kwargs)
       IN  /\ SetHeap(r.H)
           /\ ret' = [op |-> "filter", recv |-> wf,
                      kind |-> IF r.kind = "raise" THEN r.err ELSE r.kind,
                      v |-> r.v, call |-> c]
  /\ nops' = nops + 1
  /\ UNCHANGED <<batchVars, prior, gen, ds, calls, bulkVars>>

\* wf.taper(*args, **kwargs)
CallTaper ==
  /\ nops < MaxOps
  /\ \E wf \in DOMAIN wfs, c \in TaperCalls :
       LET r == Waveform_taper(Heap, wf, c.args, c.kwargs)
       IN  /\ SetHeap(r.H)
           /\ ret' = [op |-> "taper", recv |-> wf,
                      kind |-> IF r.kind = "raise" THEN r.err ELSE r.kind,
                      v |-> r.v, call |-> c]
  /\ nops' = nops + 1
  /\ UNCHANGED <<batchVars, prior, gen, ds, calls, bulkVars>>

\* the apply variant that keeps the waveforms the operation returned
CallApply_keeping ==
  /\ nops < MaxOps
  /\ \E method_name \in MethodNames :
       \E c \in CallsOf(method_name) :
         LET r == WaveformDataset_apply(Heap, ds, method_name, c.args, c.kwargs)
         IN  /\ SetHeap(r.H)
             /\ ret' = [op |-> method_name, recv |-> 0,
                        kind |-> IF r.kind = "raise" THEN r.err ELSE "none", v |-> 0,
                        call |-> c]
             /\ calls' = r.calls
             /\ ds' = IF r.kind = "raise" \/ Len(r.H.wfs) = Len(wfs) THEN ds
                      ELSE [k \in 1..(Len(r.H.wfs) - Len(wfs)) |-> Len(wfs) + k]
  /\ nops' = nops + 1
  /\ UNCHANGED <<batchVars, prior, gen, bulkVars>>

\* dataset.apply(method_name, *args, **kwargs)
CallApply ==
  /\ nops < MaxOps
  /\ \E method_name \in MethodNames :
       \E c \in CallsOf(method_name) :
         LET r == WaveformDataset_apply(Heap, ds, method_name, c.args, c.kwargs)
         IN  /\ SetHeap(r.H)
             /\ ret' = [op |-> method_name, recv |-> 0,
                        kind |-> IF r.kind = "raise" THEN r.err ELSE "none", v |-> 0,
                        call |-> c]
             /\ calls' = r.calls
  /\ nops' = nops + 1
  /\ UNCHANGED <<batchVars, prior, gen, ds, bulkVars>>

NextEntity == CallFilter \/ CallTaper \/ CallApply

SpecEntity == InitEntity /\ [][NextEntity]_vars

(* ------------------------------------------------------------------ *)
(* Properties of the entity layer                                     *)
(* ------------------------------------------------------------------ *)
Shape(a) == [c \in DOMAIN a |-> Len(a[c])]

IsPrefix(s, t) == Len(s) <= Len(t) /\ \A k \in 1..Len(s) : s[k] = t[k]

\* the step was wf.filter(...) or wf.taper(...) and it returned an object
Transformed ==
  /\ ret'.op \in {"filter", "taper"}
  /\ ret'.recv # 0
  /\ ret'.kind = "object"

\* C7: a wf.filter or wf.taper call that succeeds returns a Waveform that
\* did not exist before and is not the receiver; its _attrs is the very
\* Series the receiver's _attrs is; its data is an array allocated by the
\* call, of the shape of the receiver's data; the receiver, its array and
\* every Series are as they were before the call.
C7_NewObjectSharedRow ==
  [][ Transformed =>
        LET recv == ret'.recv
            new == ret'.v
            old_data == wfs[recv]["data"].v
            new_data == wfs'[new]["data"].v
        IN  /\ new \notin DOMAIN wfs
            /\ new \in DOMAIN wfs'
            /\ new # recv
            /\ wfs'[new]["_attrs"] = wfs[recv]["_attrs"]
            /\ wfs'[new]["data"].t = "array"
            /\ new_data \notin DOMAIN arrays
            /\ new_data \in DOMAIN arrays'
            /\ Shape(arrays'[new_data]) = Shape(arrays[old_data])
            /\ arrays'[old_data] = arrays[old_data]
            /\ wfs'[recv] = wfs[recv]
            /\ series' = series ]_vars

\* a filter returned a Waveform whose samples differ from the receiver's
C7_Witness ==
  /\ ret.op = "filter"
  /\ ret.recv # 0
  /\ ret.kind = "object"
  /\ arrays[wfs[ret.v]["data"].v] # arrays[wfs[ret.recv]["data"].v]
  /\ wfs[ret.v]["_attrs"] = wfs[ret.recv]["_attrs"]

\* a taper did, by a window that is not flat
C7_WitnessTaper ==
  /\ ret.op = "taper"
  /\ ret.recv # 0
  /\ ret.kind = "object"
  /\ ret.v # ret.recv
  /\ arrays[wfs[ret.v]["data"].v] # arrays[wfs[ret.recv]["data"].v]

\* the last call was dataset.apply(...)
Applied == ret.op # "none" /\ ret.recv = 0

\* C8: after dataset.apply(method_name, ...) the waveforms the operation
\* was invoked on are an initial part of the dataset, in its order; they
\* are the whole dataset when apply returned; and when a waveform of the
\* dataset has no operation of that name (no attribute, or an attribute
\* that is not a method), apply raised and the operation was invoked on
\* no waveform: AttributeError when the attribute is missing.
C8_ApplyInOrderFailFast ==
  Applied =>
    /\ IsPrefix(calls, ds)
    /\ ret.kind = "none" => calls = ds
    /\ (\E k \in DOMAIN ds : ~hasattr(Heap, ds[k], ret.op)) =>
         ret.kind = "AttributeError" /\ calls = <<>>
    /\ (\E k \in DOMAIN ds : ~callable(Heap, ds[k], ret.op)) =>
         ret.kind \in {"AttributeError", "TypeError"} /\ calls = <<>>

\* apply returned after invoking the operation on two waveforms
C8_Witness ==
  /\ Applied
  /\ ret.kind = "none"
  /\ Len(calls) = 2
  /\ calls = ds

\* apply of a name no waveform has, on a dataset of two
C8_WitnessLacking ==
  /\ Applied
  /\ Len(ds) = 2
  /\ \E k \in DOMAIN ds : ~hasattr(Heap, ds[k], ret.op)
  /\ ret.kind = "AttributeError"
  /\ calls = <<>>

\* the filter of the call binds zero_phase to True and an order whose
\* padding the channels of waveform wf are too short for
TooShort(H, wf, call) ==
  LET b == BindFilter(call.args, call.kwargs)
  IN  /\ b # <<>>
      /\ b[1].zero_phase
      /\ \E c \in DOMAIN H.arrays[H.wfs[wf]["data"].v] :
           Len(H.arrays[H.wfs[wf]["data"].v][c]) <= 3 * (b[1].order + 1)

\* C9: a dataset.apply('filter', ...) that raises, as it does when a signal
\* is too short for the zero-phase filter, leaves every waveform of the
\* dataset and the samples of its data as they were before the call.
C9_FailedApplyLeavesData ==
  [][ (ret'.op = "filter" /\ ret'.recv = 0 /\ ret'.kind # "none") =>
        \A k \in DOMAIN ds :
          /\ wfs'[ds[k]] = wfs[ds[k]]
          /\ arrays'[wfs[ds[k]]["data"].v] = arrays[wfs[ds[k]]["data"].v] ]_vars

\* apply('filter') filtered the first waveform and failed on the second,
\* whose signal is too short
C9_Witness ==
  /\ ret.op = "filter"
  /\ ret.recv = 0
  /\ ret.kind = "ValueError"
  /\ calls = <<1, 2>>
  /\ ~TooShort(Heap, 1, ret.call)
  /\ TooShort(Heap, 2, ret.call)
  /\ Len(arrays) > Len(ds)

(* ================================================================== *)
(* SpecScope: runs made one after another in one working directory,   *)
(* and runs that are terminated from outside                          *)
(* ================================================================== *)
MaxRuns == 2         \* runs made in the working directory

\* the configurations of the runs of SpecScope
ScopeConfs(m) ==
  IF m = "int"
  THEN { c \in IntConfs : /\ c.end_date <= 1
                          /\ c.interval = 1
                          /\ c.trace_len = 1
                          /\ ~c.detrend /\ ~c.remove_response /\ c.resample = 0 }
  ELSE { c \in CsvConfs : /\ Len(c.catalog_file) = 1
                          /\ c.time_before_p = 0
                          /\ ~c.detrend /\ ~c.remove_response /\ c.resample = 0 }

InitScope ==
  /\ Init
  /\ conf \in ScopeConfs(mode)

Running == {"new", "constructed", "travel_times", "ready", "loop", "flushed"}
Killed == {"killed_early", "killed_loop", "killed_flushed"}

\* where the run was when the process was terminated
KilledAt(p) ==
  CASE p = "loop" -> "killed_loop"
    [] p = "flushed" -> "killed_flushed"
    [] OTHER -> "killed_early"

\* the process is terminated from outside: no handler runs, the file is
\* closed by the system and holds what had reached it, or nothing of it
Kill ==
  /\ pc \in Running
  /\ pc' = KilledAt(pc)
  /\ \E data \in {h5.data, <<>>} :
       h5' = IF h5.open THEN [h5 EXCEPT !.open = FALSE, !.data = data] ELSE h5
  /\ UNCHANGED <<mode, conf, station, catalog, i, dir, csv, attr_list, log, reqs,
                 flushes, outcomes, tt_answers, envFaults>>
  /\ UNCHANGED <<prior, gen, entityVars, bulkVars>>

\* the script is started again in the same working directory: a new
\* fetcher object, the files of the directory as the run before left them
Rerun ==
  /\ pc \in {"done", "aborted"} \cup Killed
  /\ prior.runs + 1 < MaxRuns
  /\ prior' = [runs |-> prior.runs + 1, h5 |-> h5, csv |-> csv]
  /\ mode' \in {"int", "csv"}
  /\ conf' \in ScopeConfs(mode')
  /\ pc' = "new"
  /\ station' = Unresolved
  /\ catalog' = <<>>
  /\ i' = 1
  /\ attr_list' = <<>>
  /\ log' = <<>>
  /\ reqs' = <<>>
  /\ flushes' = 0
  /\ outcomes' = <<>>
  /\ tt_answers' = <<>>
  /\ envFaults' = {}
  /\ UNCHANGED <<dir, h5, csv>>
  /\ UNCHANGED <<gen, entityVars, bulkVars>>

NextScope == Next \/ Kill \/ Rerun

SpecScope == InitScope /\ [][NextScope]_vars

\* ids of the catalog rows whose iteration ended as accepted
AcceptedIds == { catalog[k].id : k \in { n \in DOMAIN outcomes : outcomes[n] = "accepted" } }
SrcIds(rows) == { rows[k].src_id : k \in DOMAIN rows }
StoredIds(data) == { key[5] : key \in DOMAIN data }

\* C11 (as claimed): a run terminated between the opening of the binary
\* store and flush leaves the directory with a binary store and no
\* attribute table, whatever earlier runs left there.
C11_Original ==
  pc = "killed_loop" => (dir /\ h5.exists /\ ~csv.exists)

\* C11, first run in the directory: the store is there and no table is
C11_FirstRunKilled ==
  (pc = "killed_loop" /\ ~prior.csv.exists) => (dir /\ h5.exists /\ ~csv.exists)

\* a run killed in its loop after an earlier run had flushed its table: the
\* table of the earlier run is still there, beside the store of the new run
C11_StaleTable ==
  /\ pc = "killed_loop"
  /\ prior.runs = 1
  /\ prior.csv.exists
  /\ csv = prior.csv
  /\ Len(csv.rows) >= 1
  /\ h5.data # prior.h5.data

\* C12: when a run made in a directory that holds the outputs of an
\* earlier run has flushed, the binary store holds exactly the entries of
\* the events this run accepted and the attribute table exactly the rows
\* this run buffered, in order; nothing of the earlier run is left.
C12_RerunOverwrites ==
  (prior.runs >= 1 /\ pc \in {"flushed", "done"}) =>
    /\ StoredIds(h5.data) = AcceptedIds
    /\ Cardinality(DOMAIN h5.data) = Count(outcomes, "accepted")
    /\ csv.exists
    /\ csv.rows = attr_list
    /\ Len(csv.rows) = Count(outcomes, "accepted")
    /\ SrcIds(csv.rows) = AcceptedIds

\* the second run ended with fewer entries than the first had left
C12_Witness ==
  /\ prior.runs = 1
  /\ pc = "done"
  /\ prior.csv.exists
  /\ Len(prior.csv.rows) = 2
  /\ Cardinality(DOMAIN prior.h5.data) = 2
  /\ Len(csv.rows) = 1
  /\ Cardinality(DOMAIN h5.data) = 1

(* ------------------------------------------------------------------ *)
(* Further properties of the batch run                                *)
(* ------------------------------------------------------------------ *)
\* the station's metadata were not resolved and the constructor raised
MetadataFailed == pc = "aborted" /\ ~station.resolved

\* C13: when the resolution of the station's metadata fails, the run ends
\* there: no waveform request was issued, no iteration was made, nothing
\* was flushed, the store and the table are what the directory held
\* before, and in a working directory no run was made in there is no
\* station directory, no binary store and no attribute table.
C13_MetadataFailureAborts ==
  MetadataFailed =>
    /\ reqs = <<>>
    /\ outcomes = <<>>
    /\ catalog = <<>>
    /\ attr_list = <<>>
    /\ flushes = 0
    /\ h5 = prior.h5
    /\ csv = prior.csv
    /\ prior.runs = 0 => (~dir /\ ~h5.exists /\ ~csv.exists)

C13_Witness ==
  /\ MetadataFailed
  /\ mode = "csv"
  /\ Len(conf.catalog_file) = 2
  /\ ~dir

\* the last request issued
LastReq(q) == q[Len(q)]

\* C14: an event whose stream came back with a gap is never accepted: its
\* iteration ended as skipped, the binary store holds no entry under its
\* key, and neither the attribute buffer nor the table holds a row of it.
C14_GapNeverAccepted ==
  \A k \in DOMAIN reqs :
    reqs[k].gaps =>
      LET event == catalog[reqs[k].i]
      IN  /\ reqs[k].i <= Len(outcomes)
          /\ outcomes[reqs[k].i] = "skipped"
          /\ TraceKey(event) \notin DOMAIN h5.data
          /\ event.id \notin { attr_list[n].src_id : n \in DOMAIN attr_list }
          /\ event.id \notin { csv.rows[n].src_id : n \in DOMAIN csv.rows }

\* a run that ended with an event accepted after one skipped for its gap
C14_Witness ==
  /\ pc = "done"
  /\ Len(reqs) >= 2
  /\ reqs[1].kind = "stream"
  /\ reqs[1].cond_ok
  /\ reqs[1].gaps
  /\ outcomes[1] = "skipped"
  /\ outcomes[2] = "accepted"
  /\ Len(csv.rows) >= 1

\* C15 (as claimed): every segment of the binary store has, on every
\* channel, int(trace_len * sampling rate) samples, the rate being the one
\* its row carries.
C15_Original ==
  \A n \in DOMAIN attr_list :
    LET row == attr_list[n]
        segment == h5.data[row.trace_name]
    IN  \A c \in DOMAIN segment :
          segment[c] = trace_length(mode, conf, row.rec_sampling_rate_hz[1])

\* C16 (as claimed): once set, the station's sampling rate keeps its value
\* to the end of the run.
C16_Original ==
  [][ station.sampling_rate # <<>> => station'.sampling_rate = station.sampling_rate ]_vars

\* the stream of request q reached the gap check and passed it
PassedGapCheck(q) ==
  /\ q.kind = "stream"
  /\ (conf.detrend \/ conf.remove_response \/ conf.resample # 0) => q.cond_ok
  /\ ~q.gaps

\* the sampling rate the traces of request q's stream report at the gap check
ReportedRate(q) == IF conf.resample # 0 THEN conf.resample ELSE q.rate

\* C16 (amended): the station's sampling rate is unset until a stream
\* passes the gap check; every stream that passes it assigns the rate it
\* reports, the first and the later ones alike; a step that is no such
\* event leaves it as it is; and the row of an accepted event carries the
\* rate assigned by its own stream.
C16_AssignedByEveryGapFreeStream ==
  /\ [][ IF Len(reqs') = Len(reqs) + 1 /\ PassedGapCheck(LastReq(reqs'))
         THEN station'.sampling_rate = << ReportedRate(LastReq(reqs')) >>
         ELSE station'.sampling_rate = station.sampling_rate ]_vars
  /\ [][ Len(attr_list') = Len(attr_list) + 1 =>
           attr_list'[Len(attr_list')].rec_sampling_rate_hz
             = << ReportedRate(LastReq(reqs')) >> ]_vars

\* the rate was 1 after the first event and the second stream made it 2
C16_Witness ==
  /\ Len(reqs) = 2
  /\ Len(attr_list) = 2
  /\ conf.resample = 0
  /\ reqs[1].rate = 1
  /\ reqs[2].rate = 2
  /\ attr_list[1].rec_sampling_rate_hz = <<1>>
  /\ station.sampling_rate = <<2>>

\* ids of the catalog rows whose iteration ended as accepted, in order
RECURSIVE AcceptedIdSeq(_)
AcceptedIdSeq(n) ==
  IF n = 0 THEN <<>>
  ELSE IF outcomes[n] = "accepted" THEN Append(AcceptedIdSeq(n - 1), catalog[n].id)
  ELSE AcceptedIdSeq(n - 1)

\* C17: the rows of the attribute buffer are, in order, the accepted events
\* in the order of the catalog with the skipped ones left out; every
\* successful write appends its row at the end and leaves the earlier rows
\* where they are; the flushed table is the buffer, row by row.
C17_RowsInAcquisitionOrder ==
  /\ []( [n \in DOMAIN attr_list |-> attr_list[n].src_id] = AcceptedIdSeq(Len(outcomes)) )
  /\ [][ Len(attr_list') = Len(attr_list) + 1 =>
           /\ \A n \in DOMAIN attr_list : attr_list'[n] = attr_list[n]
           /\ attr_list'[Len(attr_list')].src_id = catalog[i].id
           /\ attr_list'[Len(attr_list')].trace_name = TraceKey(catalog[i])
           /\ TraceKey(catalog[i]) \in DOMAIN h5'.data \ DOMAIN h5.data ]_vars
  /\ []( pc \in {"flushed", "done"} =>
           /\ csv.rows = attr_list
           /\ [n \in DOMAIN csv.rows |-> csv.rows[n].src_id] = AcceptedIdSeq(Len(catalog)) )

\* a table of the first and the third event, the second having been skipped
C17_Witness ==
  /\ pc = "done"
  /\ Len(catalog) = 3
  /\ outcomes = <<"accepted", "skipped", "accepted">>
  /\ [n \in DOMAIN csv.rows |-> csv.rows[n].src_id] = << catalog[1].id, catalog[3].id >>

\* C19 (as claimed): every iteration made over an event that has a window
\* issued its request, with attach_response true exactly when
\* remove_response is configured.
C19_Original ==
  \A k \in 1..Len(outcomes) :
    ~(catalog[k].trace_start_time.nan \/ catalog[k].trace_end_time.nan) =>
      \E n \in DOMAIN reqs :
        /\ reqs[n].i = k
        /\ reqs[n].attach_response = conf.remove_response

(* ================================================================== *)
(* The bulk mode: Processor (quakepro/processing.py), the same code   *)
(* as SignalProcessor (quakepro/processor.py)                         *)
(* ================================================================== *)
MaxBulkOps == 3      \* Processor objects built and bulk calls made in one behaviour

\* A store of the folder is named by the number of "_copy" suffixes of its
\* file name: 0 is <station>_waveforms.hdf5.  Keys are numbered.

\* the Processor variant that opens the store it finds, without a copy
_locate_files_in_place(F, original) ==
  IF DOMAIN F.stores = {} THEN [raised |-> TRUE, err |-> "IndexError", F |-> F, obj |-> <<>>]
  ELSE IF ~F.table.exists
         THEN [raised |-> TRUE, err |-> "IndexError", F |-> F, obj |-> <<>>]
         ELSE [raised |-> FALSE, err |-> "", F |-> F,
               obj |-> << [source |-> original, wavs |-> original, attr |-> F.table.rows] >>]

\* _locate_files(path): original is the file glob.glob(...)[0] names, of
\* the stores of the folder in the order the file system lists them
_locate_files(F, original) ==
  IF DOMAIN F.stores = {} THEN [raised |-> TRUE, err |-> "IndexError", F |-> F, obj |-> <<>>]
  ELSE LET copy_file == original + 1
           copied == [F EXCEPT !.stores = (copy_file :> F.stores[original]) @@ F.stores]
       IN  IF ~F.table.exists
           THEN [raised |-> TRUE, err |-> "IndexError", F |-> copied, obj |-> <<>>]
           ELSE [raised |-> FALSE, err |-> "", F |-> copied,
                 obj |-> << [source |-> original, wavs |-> copy_file,
                             attr |-> F.table.rows] >>]

\* the segment tapered channel by channel: <<>> when get_window raises
TaperSegment(signals, window_type) ==
  IF \E c \in DOMAIN signals : get_window(window_type, Len(signals[c])) = <<>>
  THEN <<>>
  ELSE << [c \in DOMAIN signals |->
             Tapered(signals[c], get_window(window_type, Len(signals[c]))[1])] >>

\* Processor.taper, from the k-th row of self.attr on: [err, store]
RECURSIVE taper_from(_, _, _, _, _)
taper_from(store, attr, k, window_type, params) ==
  IF k > Len(attr) THEN [err |-> "none", store |-> store]
  ELSE LET name == attr[k]["trace_name"]
       IN  IF name \notin DOMAIN store THEN [err |-> "KeyError", store |-> store]
           ELSE LET tapered_signals == TaperSegment(store[name], window_type)
                IN  IF tapered_signals = <<>> THEN [err |-> "ValueError", store |-> store]
                    ELSE IF params # <<>> THEN [err |-> "TypeError", store |-> store]
                    ELSE taper_from([store EXCEPT ![name] = tapered_signals[1]],
                                    attr, k + 1, window_type, params)

Processor_taper(store, attr, args, kwargs) ==
  IF \/ Len(args) >= 1 /\ "window_type" \in DOMAIN kwargs
     \/ Len(args) = 0 /\ "window_type" \notin DOMAIN kwargs
     \/ DOMAIN kwargs \ {"window_type"} # {}
  THEN [err |-> "TypeError", store |-> store]
  ELSE taper_from(store, attr, 1,
                  IF Len(args) >= 1 THEN args[1] ELSE kwargs["window_type"],
                  IF Len(args) >= 1 THEN Tail(args) ELSE <<>>)

\* Processor.filter, from the k-th row of self.attr on
RECURSIVE filter_from(_, _, _, _, _)
filter_from(store, attr, k, sos, zero_phase) ==
  IF k > Len(attr) THEN [err |-> "none", store |-> store]
  ELSE LET name == attr[k]["trace_name"]
       IN  IF name \notin DOMAIN store THEN [err |-> "KeyError", store |-> store]
           ELSE LET filtered_signals == FilterChannels(sos, store[name], zero_phase)
                IN  IF filtered_signals = <<>> THEN [err |-> "ValueError", store |-> store]
                    ELSE filter_from([store EXCEPT ![name] = filtered_signals[1]],
                                     attr, k + 1, sos, zero_phase)

Processor_filter(store, attr, args, kwargs) ==
  LET b == BindFilter(args, kwargs)
  IN  IF b = <<>> THEN [err |-> "TypeError", store |-> store]
      ELSE IF attr = <<>> THEN [err |-> "AttributeError", store |-> store]
      ELSE IF "receiver_sampling_rate_hz" \notin DOMAIN attr[1]
        THEN [err |-> "AttributeError", store |-> store]
      ELSE LET sos == butter(b[1].order, 2 * b[1].cutoff,
                             attr[1]["receiver_sampling_rate_hz"], b[1].filter_type)
           IN  IF sos = <<>> THEN [err |-> "ValueError", store |-> store]
               ELSE filter_from(store, attr, 1, sos[1], b[1].zero_phase)

(* ------------------------------------------------------------------ *)
(* SpecBulk: a folder, the Processors built on it and their calls     *)
(* ------------------------------------------------------------------ *)
BulkSchemas ==
  { {"trace_name", "rec_sampling_rate_hz"},
    {"trace_name", "receiver_sampling_rate_hz"} }

\* the segments of a store of n keys: long ones, the last perhaps short
BulkStores(n) ==
  { [k \in 1..n |-> IF k = n THEN last ELSE <<Long, Ramp>>] : last \in Segments }

BulkTaperCalls ==
  { [args |-> <<"bartlett">>, kwargs |-> <<>>],
    [args |-> <<>>, kwargs |-> [window_type |-> "nowindow"]] }

BulkFilterCalls ==
  { [args |-> <<>>,
     kwargs |-> [filter_type |-> "lowpass", cutoff |-> 1, order |-> 1, zero_phase |-> TRUE]],
    [args |-> <<"highpass", 1>>, kwargs |-> [zero_phase |-> FALSE]],
    [args |-> <<"lowpass", 5>>, kwargs |-> [order |-> 1]] }

\* a folder as the fetchers leave it: one store, and a table unless the run
\* ended before flush; the table names the keys of the store, or those of
\* an earlier run, which had one key more
InitBulk ==
  /\ NoBatch
  /\ prior = NoPrior
  /\ gen = <<>>
  /\ arrays = <<>> /\ series = <<>> /\ wfs = <<>> /\ ds = <<>>
  /\ ret = NoCall /\ calls = <<>> /\ nops = 0
  /\ procs = <<>>
  /\ \E n \in 1..MaxWaveforms, schema \in BulkSchemas, exists \in BOOLEAN :
       \E store \in BulkStores(n), m \in {n, n + 1} :
         folder = [stores |-> (0 :> store),
                   table |-> [exists |-> exists,
                              rows |-> IF exists
                                       THEN [k \in 1..m |-> TableRow(schema, k, 8)]
                                       ELSE <<>>]]

\* Processor(path)
NewProcessor ==
  /\ nops < MaxBulkOps
  /\ \E original \in DOMAIN folder.stores :
       LET r == _locate_files(folder, original)
       IN  /\ folder' = r.F
           /\ procs' = procs \o r.obj
           /\ ret' = [op |-> "Processor", recv |-> Len(procs) + 1,
                      kind |-> IF r.raised THEN r.err ELSE "object",
                      v |-> original, call |-> NoCall.call]
  /\ nops' = nops + 1
  /\ UNCHANGED <<batchVars, prior, gen, arrays, series, wfs, ds, calls>>

\* processor.taper(*args, **kwargs): the writes go to the store it opened
BulkTaper ==
  /\ nops < MaxBulkOps
  /\ \E p \in DOMAIN procs, c \in BulkTaperCalls :
       LET r == Processor_taper(folder.stores[procs[p].wavs], procs[p].attr, c.args, c.kwargs)
       IN  /\ folder' = [folder EXCEPT !.stores[procs[p].wavs] = r.store]
           /\ ret' = [op |-> "bulk_taper", recv |-> p, kind |-> r.err, v |-> 0, call |-> c]
  /\ nops' = nops + 1
  /\ UNCHANGED <<batchVars, prior, gen, arrays, series, wfs, ds, calls, procs>>

\* processor.filter(*args, **kwargs)
BulkFilter ==
  /\ nops < MaxBulkOps
  /\ \E p \in DOMAIN procs, c \in BulkFilterCalls :
       LET r == Processor_filter(folder.stores[procs[p].wavs], procs[p].attr, c.args, c.kwargs)
       IN  /\ folder' = [folder EXCEPT !.stores[procs[p].wavs] = r.store]
           /\ ret' = [op |-> "bulk_filter", recv |-> p, kind |-> r.err, v |-> 0, call |-> c]
  /\ nops' = nops + 1
  /\ UNCHANGED <<batchVars, prior, gen, arrays, series, wfs, ds, calls, procs>>

NextBulk == NewProcessor \/ BulkTaper \/ BulkFilter

SpecBulk == InitBulk /\ [][NextBulk]_vars

(* ------------------------------------------------------------------ *)
(* Properties of the bulk mode                                        *)
(* ------------------------------------------------------------------ *)
BulkSucceeded ==
  /\ ret'.op \in {"bulk_taper", "bulk_filter"}
  /\ ret'.kind = "none"

\* the value the call recorded in ret' gives a stored segment
ExpectedSegment(attr, seg) ==
  LET c == ret'.call
  IN  IF ret'.op = "bulk_taper"
      THEN TaperSegment(seg, IF Len(c.args) >= 1 THEN c.args[1]
                             ELSE c.kwargs["window_type"])[1]
      ELSE LET b == BindFilter(c.args, c.kwargs)[1]
           IN  FilterChannels(butter(b.order, 2 * b.cutoff,
                                     attr[1]["receiver_sampling_rate_hz"],
                                     b.filter_type)[1],
                              seg, b.zero_phase)[1]

\* after the call, store s holds the transformed value of every segment
\* the table names, under the keys it had
HoldsTransformed(s, attr) ==
  /\ DOMAIN folder'.stores[s] = DOMAIN folder.stores[s]
  /\ \A k \in DOMAIN attr :
       /\ attr[k]["trace_name"] \in DOMAIN folder'.stores[s]
       /\ folder'.stores[s][attr[k]["trace_name"]]
            = ExpectedSegment(attr, folder.stores[s][attr[k]["trace_name"]])

\* C20 as stated: after a successful Processor.filter or Processor.taper,
\* the binary store found in the given path holds, for every trace_name of
\* the table, the transformed segment under that key, with no key added or
\* removed
C20_Original ==
  [][BulkSucceeded =>
       HoldsTransformed(procs[ret'.recv].source, procs[ret'.recv].attr)]_vars

\* C20, amended: after a successful Processor.filter or Processor.taper, the
\* copy of the binary store the Processor made in the given path holds, for
\* every trace_name of the table, the transformed segment under that key,
\* with no key added or removed, and the store it copied is as it was
C20_BulkOverwritesCopy ==
  [][BulkSucceeded =>
       /\ HoldsTransformed(procs[ret'.recv].wavs, procs[ret'.recv].attr)
       /\ folder'.stores[procs[ret'.recv].source]
            = folder.stores[procs[ret'.recv].source]]_vars

\* a taper went through every segment of a table and changed the copy
C20_Witness ==
  /\ ret.op = "bulk_taper"
  /\ ret.kind = "none"
  /\ Len(procs[ret.recv].attr) >= 1
  /\ folder.stores[procs[ret.recv].wavs] # folder.stores[procs[ret.recv].source]

\* a filter went through every segment of a table
C20_WitnessFilter ==
  /\ ret.op = "bulk_filter"
  /\ ret.kind = "none"
  /\ Len(procs[ret.recv].attr) >= 1
  /\ folder.stores[procs[ret.recv].wavs] # folder.stores[procs[ret.recv].source]

(* ================================================================== *)
(* SpecAttributes: WaveformFetcher._append_attributes of the explicit *)
(* mode (fetcher_csv.py), applied to the events of a prepared catalog *)
(* ================================================================== *)
\* the catalogs _calculate_trace_times leaves, of events that have a P
\* arrival (the others never get a stream, hence never a row)
PreparedCatalogs ==
  UNION { { _calculate_trace_times(_calculate_p_travel_times(f, answers), b, 150) :
              answers \in [1..Len(f) -> ArrivalLists \ { <<>> }], b \in {0, 50} } :
          f \in CatalogFiles \ { <<>> } }

InitAttributes ==
  /\ mode = "csv"
  /\ conf = <<>>
  /\ pc = "idle"
  /\ \E rate \in Rates : station = [resolved |-> TRUE, sampling_rate |-> <<rate>>]
  /\ catalog \in { c \in PreparedCatalogs : Len(c) >= 1 }
  /\ i = 1
  /\ dir = FALSE
  /\ h5 = NoFile
  /\ csv = NoTable
  /\ attr_list = <<>>
  /\ log = <<>>
  /\ reqs = <<>>
  /\ flushes = 0
  /\ outcomes = <<>>
  /\ tt_answers = <<>>
  /\ envFaults = {}
  /\ prior = NoPrior
  /\ gen = <<>>
  /\ NoEntities

\* self._append_attributes(event, dataset), for the next event of the catalog
AppendAttributes ==
  /\ i <= Len(catalog)
  /\ attr_list' = _append_attributes(attr_list, mode, station, catalog[i],
                                     DatasetName(TraceKey(catalog[i])))
  /\ i' = i + 1
  /\ UNCHANGED <<mode, conf, pc, station, catalog, dir, h5, csv, log, reqs,
                 flushes, outcomes, tt_answers, envFaults>>
  /\ UNCHANGED <<prior, gen, entityVars, bulkVars>>

NextAttributes == AppendAttributes

SpecAttributes == InitAttributes /\ [][NextAttributes]_vars

\* C18 as stated: in explicit mode every attribute row carries the source
\* fields of its own event under the matching column: id, origin time,
\* latitude, longitude, depth, magnitude and the computed P travel time
C18_Original ==
  \A k \in DOMAIN attr_list :
    /\ attr_list[k].src_id = catalog[k].id
    /\ attr_list[k].src_origin_time = catalog[k].time
    /\ attr_list[k].src_latitude_deg = catalog[k].lat
    /\ attr_list[k].src_longitude_deg = catalog[k].lon
    /\ attr_list[k].src_depth_km = catalog[k].depth
    /\ attr_list[k].src_magnitude = catalog[k].magnitude
    /\ attr_list[k].p_travel_sec = catalog[k].p_travel_time_s

(* ================================================================== *)
(* The plot operations of a Waveform (components/ops/plotting.py)     *)
(* ================================================================== *)
MaxPlots == 2        \* plot calls made in one behaviour

RECURSIVE SumOf(_, _)
SumOf(x, n) == IF n = 0 THEN 0 ELSE SumOf(x, n - 1) + x[n]

\* np.mean(signal), at the resolution of the samples kept here
mean(signal) == SumOf(signal, Len(signal)) \div Len(signal)

\* WaveformPlotter.plot_spectra: per channel it takes the spectrum of a
\* copy and draws it
WaveformPlotter_plot_spectra(H, wv, args, kwargs) ==
  LET self == H.wfs[wv]
  IN  IF Len(args) > 4 \/ DOMAIN kwargs \ SigParameters("plot_spectra") # {}
      THEN Raise("TypeError", H)
      ELSE IF self["data"].t # "array" THEN Raise("TypeError", H)
      ELSE IF Len(H.arrays[self["data"].v]) = 0 THEN Return("none", 0, H)
      ELSE IF "sampling_rate_hz" \notin DOMAIN self THEN Raise("AttributeError", H)
      ELSE IF "trace_name" \notin DOMAIN self THEN Raise("AttributeError", H)
      ELSE Return("none", 0, H)

\* the channels of plot_spectrogram from channel cha on.  `signal` is a
\* view of the row of self.wv.data, so `signal -= np.mean(signal)` stores
\* into the array of the waveform when its samples are floating point, and
\* raises (the result cannot be cast) when they are integers; stft raises
\* unless noverlap is below the segment length it ends up using
RECURSIVE spectrogram_from(_, _, _, _, _, _)
spectrogram_from(H, wv, cha, dtype, nperseg, noverlap) ==
  LET self == H.wfs[wv]
      a == self["data"].v
  IN  IF cha > Len(H.arrays[a]) THEN Return("none", 0, H)
      ELSE IF dtype # "float64" THEN Raise("TypeError", H)
      ELSE
        LET signal == [n \in 1..Len(H.arrays[a][cha]) |->
                         H.arrays[a][cha][n] - mean(H.arrays[a][cha])]
            H1 == [H EXCEPT !.arrays[a][cha] = signal]
            overlap == IF noverlap # 0 THEN noverlap ELSE (nperseg * 3) \div 4
        IN  IF "sampling_rate_hz" \notin DOMAIN self THEN Raise("AttributeError", H1)
            ELSE IF overlap >= Min(nperseg, Len(signal)) THEN Raise("ValueError", H1)
            ELSE IF "trace_name" \notin DOMAIN self THEN Raise("AttributeError", H1)
            ELSE spectrogram_from(H1, wv, cha + 1, dtype, nperseg, overlap)

\* WaveformPlotter.plot_spectrogram(nperseg=128, noverlap=None, ...)
WaveformPlotter_plot_spectrogram(H, wv, dtype, args, kwargs) ==
  LET self == H.wfs[wv]
      nperseg == IF Len(args) >= 1 THEN args[1]
                 ELSE IF "nperseg" \in DOMAIN kwargs THEN kwargs["nperseg"] ELSE 128
      noverlap == IF Len(args) >= 2 THEN args[2]
                  ELSE IF "noverlap" \in DOMAIN kwargs THEN kwargs["noverlap"] ELSE 0
  IN  IF \/ Len(args) > 9
         \/ DOMAIN kwargs \ SigParameters("plot_spectrogram") # {}
         \/ Len(args) >= 1 /\ "nperseg" \in DOMAIN kwargs
         \/ Len(args) >= 2 /\ "noverlap" \in DOMAIN kwargs
      THEN Raise("TypeError", H)
      ELSE IF self["data"].t # "array" THEN Raise("TypeError", H)
      ELSE spectrogram_from(H, wv, 1, dtype, nperseg, noverlap)

\* Waveform.plot_spectra and Waveform.plot_spectrogram: the wrapper of
\* sync_signature around the method of self._plotter
Waveform_plot_spectra(H, self, args, kwargs) ==
  IF H.wfs[self]["_plotter"].t # "plotter" THEN Raise("AttributeError", H)
  ELSE WaveformPlotter_plot_spectra(H, self, args,
                                    Restrict(kwargs, SigParameters("plot_spectra")))

Waveform_plot_spectrogram(H, self, dtype, args, kwargs) ==
  IF H.wfs[self]["_plotter"].t # "plotter" THEN Raise("AttributeError", H)
  ELSE WaveformPlotter_plot_spectrogram(H, self, dtype, args,
                                        Restrict(kwargs, SigParameters("plot_spectrogram")))

(* ------------------------------------------------------------------ *)
(* SpecPlot: a dataset and the plot calls made on its waveforms       *)
(* ------------------------------------------------------------------ *)
SpectraCalls ==
  { [args |-> <<>>, kwargs |-> [plot_waveform |-> FALSE, verbose |-> TRUE]] }

SpectrogramCalls ==
  { [args |-> <<>>, kwargs |-> [nperseg |-> 4]],
    [args |-> <<>>, kwargs |-> <<>>] }

\* the sample types a stored segment may have: float64 after detrend,
\* remove_response or resample, the integers of the recording otherwise
Dtypes == {"float64", "int32"}

InitPlot == InitEntity

\* wf.plot(**kwargs)
CallPlot ==
  /\ nops < MaxPlots
  /\ \E wf \in DOMAIN wfs, c \in PlotCalls :
       LET r == Waveform_plot(Heap, wf, c.args, c.kwargs)
       IN  /\ SetHeap(r.H)
           /\ ret' = [op |-> "plot", recv |-> wf,
                      kind |-> IF r.kind = "raise" THEN r.err ELSE r.kind,
                      v |-> r.v, call |-> c]
  /\ nops' = nops + 1
  /\ UNCHANGED <<batchVars, prior, gen, ds, calls, bulkVars>>

\* wf.plot_spectra(**kwargs)
CallPlotSpectra ==
  /\ nops < MaxPlots
  /\ \E wf \in DOMAIN wfs, c \in SpectraCalls :
       LET r == Waveform_plot_spectra(Heap, wf, c.args, c.kwargs)
       IN  /\ SetHeap(r.H)
           /\ ret' = [op |-> "plot_spectra", recv |-> wf,
                      kind |-> IF r.kind = "raise" THEN r.err ELSE r.kind,
                      v |-> r.v, call |-> c]
  /\ nops' = nops + 1
  /\ UNCHANGED <<batchVars, prior, gen, ds, calls, bulkVars>>

\* wf.plot_spectrogram(**kwargs)
CallPlotSpectrogram ==
  /\ nops < MaxPlots
  /\ \E wf \in DOMAIN wfs, c \in SpectrogramCalls, dtype \in Dtypes :
       LET r == Waveform_plot_spectrogram(Heap, wf, dtype, c.args, c.kwargs)
       IN  /\ SetHeap(r.H)
           /\ ret' = [op |-> "plot_spectrogram", recv |-> wf,
                      kind |-> IF r.kind = "raise" THEN r.err ELSE r.kind,
                      v |-> r.v, call |-> c]
  /\ nops' = nops + 1
  /\ UNCHANGED <<batchVars, prior, gen, ds, calls, bulkVars>>

NextPlot == CallPlot \/ CallPlotSpectra \/ CallPlotSpectrogram

SpecPlot == InitPlot /\ [][NextPlot]_vars

\* C21 as stated: no plot operation of a Waveform (plot, plot_spectra,
\* plot_spectrogram) changes the waveform's data or its attributes
C21_Original ==
  [][ret'.op \in {"plot", "plot_spectra", "plot_spectrogram"} =>
       /\ arrays' = arrays
       /\ series' = series
       /\ wfs' = wfs]_vars

\* plot and plot_spectra, for their part, change nothing
C21_PlotAndSpectraPure ==
  [][ret'.op \in {"plot", "plot_spectra"} =>
       /\ arrays' = arrays
       /\ series' = series
       /\ wfs' = wfs]_vars

\* a spectrogram was drawn and the samples of the waveform are others
C21_SpectrogramChanged ==
  /\ ret.op = "plot_spectrogram"
  /\ ret.kind = "none"
  /\ nops = 1
  /\ arrays[wfs[ret.recv]["data"].v] = << <<4, -4, 4, -4, 4, -4, 4, -4>>,
                                          <<-3, -2, -1, 0, 1, 2, 3, 4>> >>

(* ================================================================== *)
(* SpecSame: the bulk filter beside Waveform.filter, on a table that  *)
(* carries the sampling rate under the column each of them reads      *)
(* ================================================================== *)
SameSchema == {"trace_name", "receiver_sampling_rate_hz", "sampling_rate_hz"}

\* a folder of one store and its table; each trace has its own rate
InitSame ==
  /\ NoBatch
  /\ prior = NoPrior
  /\ gen = <<>>
  /\ arrays = <<>> /\ series = <<>> /\ wfs = <<>> /\ ds = <<>>
  /\ ret = NoCall /\ calls = <<>> /\ nops = 0
  /\ procs = <<>>
  /\ \E n \in 1..MaxWaveforms :
       \E store \in BulkStores(n), rates \in [1..n -> {4, 8}] :
         folder = [stores |-> (0 :> store),
                   table |-> [exists |-> TRUE,
                              rows |-> [k \in 1..n |->
                                          TableRow(SameSchema, k, rates[k])]]]

NextSame == NewProcessor \/ BulkFilter

SpecSame == InitSame /\ [][NextSame]_vars

\* Waveform(seg, row).filter(*args, **kwargs): <<>> when it raises, else
\* << the data of the Waveform it returns >>
EntityFiltered(seg, row, args, kwargs) ==
  LET H0 == [arrays |-> <<seg>>, series |-> <<row>>, wfs |-> <<>>]
      w == Waveform__init__(H0, ArrayRef(1), SeriesRef(1))
      r == Waveform_filter(w.H, w.v, args, kwargs)
  IN  IF r.kind = "raise" THEN <<>>
      ELSE << r.H.arrays[r.H.wfs[r.v]["data"].v] >>

\* C22 as stated: for every stored segment, the value a successful bulk
\* filter writes equals the data of the Waveform that Waveform.filter
\* returns for the same segment with its own attribute row and the same
\* arguments, also when the traces have different sampling rates
C22_Original ==
  [][ret'.op = "bulk_filter" /\ ret'.kind = "none" =>
       LET p == procs[ret'.recv]
       IN  \A k \in DOMAIN p.attr :
             EntityFiltered(folder.stores[p.wavs][p.attr[k]["trace_name"]], p.attr[k],
                            ret'.call.args, ret'.call.kwargs)
               = << folder'.stores[p.wavs][p.attr[k]["trace_name"]] >>]_vars

\* where every trace has the rate of the first row, the two agree
C22_SameRateAgrees ==
  [][/\ ret'.op = "bulk_filter" /\ ret'.kind = "none"
     /\ \A k \in DOMAIN procs[ret'.recv].attr :
          procs[ret'.recv].attr[k]["sampling_rate_hz"]
            = procs[ret'.recv].attr[1]["sampling_rate_hz"]
     =>
       LET p == procs[ret'.recv]
       IN  \A k \in DOMAIN p.attr :
             EntityFiltered(folder.stores[p.wavs][p.attr[k]["trace_name"]], p.attr[k],
                            ret'.call.args, ret'.call.kwargs)
               = << folder'.stores[p.wavs][p.attr[k]["trace_name"]] >>]_vars

(* ------------------------------------------------------------------ *)
(* Further properties of the entity layer                             *)
(* ------------------------------------------------------------------ *)
\* the keyword arguments of a call whose names the target method declares:
\* filter(filter_type, cutoff, order, zero_phase), taper(window_type, *args)
Declared(op, kwargs) ==
  LET names == IF op = "filter"
               THEN {"filter_type", "cutoff", "order", "zero_phase"}
               ELSE {"window_type", "args"}
  IN  [k \in DOMAIN kwargs \cap names |-> kwargs[k]]

\* the target method of the receiver's processor, called directly
Target(op, recv, args, kwargs) ==
  IF op = "filter" THEN WaveformProcessor_filter(Heap, recv, args, kwargs)
  ELSE WaveformProcessor_taper(Heap, recv, args, kwargs)

\* C23: wf.filter(*args, **kwargs) and wf.taper(*args, **kwargs) do what the
\* processor's method does when it is given the same positional arguments
\* and those keyword arguments whose names are parameters of it: the same
\* objects result, the same value is returned or the same error raised; a
\* keyword argument of another name is dropped and never makes the call fail
C23_WrapperForwards ==
  [][ret'.op \in {"filter", "taper"} /\ ret'.recv # 0 =>
       LET c == ret'.call
           r == Target(ret'.op, ret'.recv, c.args, Declared(ret'.op, c.kwargs))
       IN  /\ arrays' = r.H.arrays
           /\ series' = r.H.series
           /\ wfs' = r.H.wfs
           /\ ret'.kind = (IF r.kind = "raise" THEN r.err ELSE r.kind)
           /\ ret'.v = r.v]_vars

\* a filter called with two positional arguments and a keyword argument the
\* target does not declare returned a Waveform
C23_Witness ==
  /\ ret.op = "filter"
  /\ ret.recv # 0
  /\ ret.call.args = <<"lowpass", 3>>
  /\ "verbose" \in DOMAIN ret.call.kwargs
  /\ ret.kind = "object"
  /\ ret.v \in DOMAIN wfs

(* ================================================================== *)
(* SpecLoad: a batch run, then the dataset built from what it wrote   *)
(* (quakepro/core.py, components/dataset.py)                          *)
(* ================================================================== *)
\* str(n), digit by digit
RECURSIVE Digits(_)
Digits(n) == IF n < 10 THEN <<n>> ELSE Append(Digits(n \div 10), n % 10)

\* a < b for two strings of digits
StrLess(a, b) ==
  \E j \in 1..(Len(a) + 1) :
    /\ \A m \in 1..(j - 1) : m <= Len(b) /\ a[m] = b[m]
    /\ IF j > Len(a) THEN Len(b) >= j ELSE j <= Len(b) /\ a[j] < b[j]

\* the names of two datasets of one run differ in the id they end with
KeyLess(k1, k2) == StrLess(Digits(k1[5]), Digits(k2[5]))

\* the names of S from the first to the last, or from the last to the first
RECURSIVE SortedKeys(_, _)
SortedKeys(S, descending) ==
  IF S = {} THEN <<>>
  ELSE LET first == CHOOSE k \in S :
                      \A o \in S \ {k} :
                        IF descending THEN KeyLess(o, k) ELSE KeyLess(k, o)
       IN  <<first>> \o SortedKeys(S \ {first}, descending)

\* the keys variant that lists the names from the last to the first
keys_descending(data) == SortedKeys(DOMAIN data, TRUE)

\* wavs.keys(): h5py lists the members of a group by name, in the order
\* of their characters
keys(data) == SortedKeys(DOMAIN data, FALSE)

\* the samples of a stored array; the batch run keeps its shape only
Samples(shape) == [c \in DOMAIN shape |-> [n \in 1..shape[c] |-> 0]]

\* one value of the table as read_csv gives it back: a time is text unless
\* its column is in parse_dates, the rate is a float, NaN where it was None
Parsed(c, x, parse_dates) ==
  IF c \in {"trace_start_time", "src_origin_time", "source_origin_time"}
  THEN [t |-> IF c \in parse_dates THEN "datetime" ELSE "str", v |-> x]
  ELSE IF c = "rec_sampling_rate_hz" THEN (IF x = <<>> THEN NaN ELSE Num(x[1]))
  ELSE x

\* pd.read_csv(path, parse_dates=parse_dates) of the table to_csv wrote
read_csv(table, parse_dates) ==
  IF ~table.exists THEN [err |-> "FileNotFoundError", rows |-> <<>>]
  ELSE IF table.rows = <<>> THEN [err |-> "EmptyDataError", rows |-> <<>>]
  ELSE IF parse_dates \ DOMAIN table.rows[1] # {}
    THEN [err |-> "ValueError", rows |-> <<>>]
  ELSE [err |-> "none",
        rows |-> [k \in DOMAIN table.rows |->
                    [c \in DOMAIN table.rows[k] |->
                       Parsed(c, table.rows[k][c], parse_dates)]]]

\* WaveformDataset(wavs, attrs): the k-th key of wavs with the k-th row
WaveformDataset(data, attrs) ==
  LET names == keys(data)
  IN  IF Len(names) > Len(attrs)
      THEN [err |-> "IndexError", H |-> [arrays |-> <<>>, series |-> <<>>, wfs |-> <<>>],
            waveforms |-> <<>>]
      ELSE [err |-> "none",
            H |-> WaveformDataset__init__(
                    [k \in DOMAIN names |-> Samples(data[names[k]])], attrs, Len(names)),
            waveforms |-> [k \in DOMAIN names |-> k]]

\* load_dataset(hdf5_path, attrs_path)
load_dataset(store, table) ==
  LET attrs == read_csv(table, {"trace_start_time", "source_origin_time"})
  IN  IF ~store.exists
      THEN [err |-> "FileNotFoundError",
            H |-> [arrays |-> <<>>, series |-> <<>>, wfs |-> <<>>], waveforms |-> <<>>]
      ELSE IF attrs.err # "none"
      THEN [err |-> attrs.err,
            H |-> [arrays |-> <<>>, series |-> <<>>, wfs |-> <<>>], waveforms |-> <<>>]
      ELSE WaveformDataset(store.data, attrs.rows)

LoadConfs(m) ==
  IF m = "int"
  THEN { c \in IntConfs : /\ c.interval = 1
                          /\ c.trace_len = 1
                          /\ ~c.detrend /\ ~c.remove_response /\ c.resample = 0 }
  ELSE ScopeConfs(m)

InitLoad ==
  /\ Init
  /\ conf \in LoadConfs(mode)

\* after the run: load_dataset on the two files of the working directory
LoadDataset ==
  /\ pc = "done"
  /\ nops < MaxOps
  /\ LET r == load_dataset(h5, csv)
     IN  /\ SetHeap(r.H)
         /\ ds' = r.waveforms
         /\ ret' = [op |-> "load_dataset", recv |-> 0,
                    kind |-> IF r.err = "none" THEN "object" ELSE r.err,
                    v |-> Len(r.waveforms), call |-> NoCall.call]
  /\ nops' = nops + 1
  /\ UNCHANGED <<batchVars, prior, gen, calls, bulkVars>>

\* after the run: WaveformDataset(h5py.File(store, 'r'), pd.read_csv(table))
NewDataset ==
  /\ pc = "done"
  /\ nops < MaxOps
  /\ LET attrs == read_csv(csv, {})
         r == IF attrs.err = "none" THEN WaveformDataset(h5.data, attrs.rows)
              ELSE [err |-> attrs.err,
                    H |-> [arrays |-> <<>>, series |-> <<>>, wfs |-> <<>>],
                    waveforms |-> <<>>]
     IN  /\ SetHeap(r.H)
         /\ ds' = r.waveforms
         /\ ret' = [op |-> "WaveformDataset", recv |-> 0,
                    kind |-> IF r.err = "none" THEN "object" ELSE r.err,
                    v |-> Len(r.waveforms), call |-> NoCall.call]
  /\ nops' = nops + 1
  /\ UNCHANGED <<batchVars, prior, gen, calls, bulkVars>>

NextLoad == Next \/ LoadDataset \/ NewDataset

SpecLoad == InitLoad /\ [][NextLoad]_vars

\* C24: in a WaveformDataset built from the store and the table of a
\* completed run, the trace_name of every waveform is the key under which
\* the array it holds is stored: the k-th waveform holds the array of the
\* k-th key wavs.keys() lists
C24_PairedByKey ==
  ret.op = "WaveformDataset" /\ ret.kind = "object" =>
    /\ Len(ds) = Len(keys(h5.data))
    /\ \A k \in DOMAIN ds :
         /\ wfs[ds[k]]["trace_name"].v = keys(h5.data)[k]
         /\ arrays[wfs[ds[k]]["data"].v] = Samples(h5.data[keys(h5.data)[k]])

\* a dataset of two waveforms was built after a run that skipped the
\* event between the two it accepted
C24_Witness ==
  /\ ret.op = "WaveformDataset"
  /\ ret.kind = "object"
  /\ outcomes = <<"accepted", "skipped", "accepted">>
  /\ Len(ds) = 2

\* C25 as stated: after a completed run with at least one accepted event,
\* load_dataset accepts the store and the table and returns a dataset of
\* as many waveforms as events were accepted
C25_Original ==
  ret.op = "load_dataset" /\ Count(outcomes, "accepted") >= 1 =>
    /\ ret.kind = "object"
    /\ ret.v = Count(outcomes, "accepted")
    /\ Len(ds) = Count(outcomes, "accepted")

\* the same files are accepted by WaveformDataset, read without parse_dates
C25_DirectlyBuilt ==
  ret.op = "WaveformDataset" /\ Count(outcomes, "accepted") >= 1 =>
    /\ ret.kind = "object"
    /\ Len(ds) = Count(outcomes, "accepted")

\* the columns of a row the acquisition writes
WriterColumns ==
  DOMAIN _generate_attributes("int", [resolved |-> TRUE, sampling_rate |-> <<1>>],
                              [id |-> FirstId, trace_start_time |-> Num(0)],
                              DatasetName(TraceKey([id |-> FirstId])))

\* C26 as stated: for a waveform whose row has the columns the acquisition
\* writes, Waveform.filter finds the recorded sampling rate: a call whose
\* arguments bind to the parameters of filter does not fail for want of a
\* sampling-rate attribute
C26_Original ==
  [][/\ ret'.op = "filter"
     /\ ret'.recv # 0
     /\ DOMAIN series[wfs[ret'.recv]["_attrs"].v] \subseteq WriterColumns
     /\ BindFilter(ret'.call.args,
                   Declared("filter", ret'.call.kwargs)) # <<>>
     => ret'.kind # "AttributeError"]_vars

\* C27 as stated: whatever the columns of its row, the data of a Waveform
\* is an array and filter, taper and plot are its callable operations
C27_Original ==
  \A wf \in DOMAIN wfs :
    /\ wfs[wf]["data"].t = "array"
    /\ callable(Heap, wf, "filter")
    /\ callable(Heap, wf, "taper")
    /\ callable(Heap, wf, "plot")

\* where no column has the name of an attribute or operation of Waveform,
\* they are all in place
C27_PlainColumnsKeepOperations ==
  \A wf \in DOMAIN wfs :
    DOMAIN series[wfs[wf]["_attrs"].v]
      \cap (WaveformMethods \cup {"data", "_attrs", "_plotter", "_processor"}) = {}
    => /\ wfs[wf]["data"].t = "array"
       /\ callable(Heap, wf, "filter")
       /\ callable(Heap, wf, "taper")
       /\ callable(Heap, wf, "plot")

\* C29: dataset.apply('filter', ...) and dataset.apply('taper', ...) leave
\* the dataset as it was: the same Waveform objects in the same order, each
\* with the attributes and the samples it had; no Waveform the operations
\* returned is in the dataset; and apply returns no value
C29_ApplyLeavesDataset ==
  [][ret'.op \in {"filter", "taper"} /\ ret'.recv = 0 =>
       /\ ds' = ds
       /\ \A k \in DOMAIN ds :
            /\ wfs'[ds[k]] = wfs[ds[k]]
            /\ arrays'[wfs[ds[k]]["data"].v] = arrays[wfs[ds[k]]["data"].v]
       /\ \A w \in DOMAIN wfs' \ DOMAIN wfs : \A k \in DOMAIN ds' : ds'[k] # w
       /\ ret'.v = 0
       /\ ret'.kind \notin {"object"}]_vars

\* apply('taper', ...) returned after two waveforms each returned a new one
C29_Witness ==
  /\ ret.op = "taper"
  /\ ret.recv = 0
  /\ ret.kind = "none"
  /\ Len(ds) = 2
  /\ Len(wfs) = 4
  /\ arrays[wfs[3]["data"].v] # arrays[wfs[ds[1]]["data"].v]

(* ------------------------------------------------------------------ *)
(* The sampling rate of the rows of a run                             *)
(* ------------------------------------------------------------------ *)
\* the row carries the rate of the stream that was read for its own event
RateOfOwnStream(row) ==
  /\ row.rec_sampling_rate_hz # <<>>
  /\ \E j \in DOMAIN reqs :
       /\ catalog[reqs[j].i].id = row.src_id
       /\ PassedGapCheck(reqs[j])
       /\ row.rec_sampling_rate_hz = << ReportedRate(reqs[j]) >>

\* C28: every row, buffered or written, carries as rec_sampling_rate_hz
\* the rate reported by the stream its own segment was cut from; no row
\* has an unset rate; a stream that failed after a row was built, whatever
\* rate it had, leaves the rows as they are
C28_RowRateIsOwnStreams ==
  /\ \A k \in DOMAIN attr_list : RateOfOwnStream(attr_list[k])
  /\ \A k \in DOMAIN csv.rows : RateOfOwnStream(csv.rows[k])

\* between two accepted events of rate 1, a stream of rate 2 passed the
\* gap check, became the station's rate and was then rejected
C28_Witness ==
  /\ pc = "done"
  /\ outcomes = <<"accepted", "skipped", "accepted">>
  /\ Len(reqs) = 3
  /\ conf.resample = 0
  /\ reqs[1].rate = 1
  /\ PassedGapCheck(reqs[2]) /\ reqs[2].rate = 2
  /\ reqs[3].rate = 1
  /\ Len(csv.rows) = 2
  /\ csv.rows[1].rec_sampling_rate_hz = <<1>>
  /\ csv.rows[2].rec_sampling_rate_hz = <<1>>

(* ------------------------------------------------------------------ *)
(* The store a bulk Processor starts from                             *)
(* ------------------------------------------------------------------ *)
\* C30 as stated: every Processor built on the directory copies the store
\* the acquisition wrote, never a copy an earlier Processor left there,
\* and the store the acquisition wrote is the same after every
\* construction, filter call and taper call
C30_Original ==
  [][/\ \A p \in DOMAIN procs' : procs'[p].source = 0
     /\ folder'.stores[0] = folder.stores[0]]_vars

\* the second half holds: no step changes the store the acquisition wrote
C30_OriginalStoreKept ==
  [][folder'.stores[0] = folder.stores[0]]_vars

\* a second Processor was built from the copy the first one had tapered
C30_CopyOfCopy ==
  /\ Len(procs) = 2
  /\ procs[2].source = 1
  /\ procs[2].wavs = 2
  /\ folder.stores[1] # folder.stores[0]
  /\ folder.stores[2] = folder.stores[1]

====
